---- MODULE Spec2Model ----
(***************************************************************************)
(* Model of the MicroAutoChess combat core: the board (board.py), units    *)
(* and damage (units.py, damage.py), spells (spells.py) and the frame      *)
(* loop of the combat engine (combat.py).                                  *)
(*                                                                         *)
(* Numbers.  The program computes with Python floats.  The model computes  *)
(* with exact fractions held as integers over a fixed denominator:         *)
(*   - health is counted in 1/HealthDen health points, HealthDen chosen so *)
(*     that every mitigated amount value*100/(100+d) of a half-integral    *)
(*     raw value is a whole number of these parts;                         *)
(*   - mana is counted in 1/ManaDen = 1/(100*HealthDen) mana points;       *)
(*   - raw damage values are counted in halves (Fireball splash is d/2);   *)
(*   - initiative (attack timing) is counted in 1/10000;                   *)
(*   - path costs of the guided search are counted in 1/100000 step, with  *)
(*     Euclidean distances rounded down to 1/1000.                         *)
(* Rounding of the binary floating point format itself is not modelled.    *)
(***************************************************************************)
EXTENDS Integers, Sequences, FiniteSets, TLC

VARIABLES
    pc,            \* position in CombatEngine.simulate_combat of this battle
    result,        \* value returned by simulate_combat (0, 1, 2), -1 before
    frame_number,  \* CombatEngine.frame_number
    units,         \* the Unit objects of the process: id -> fields
    cells,         \* Board.cells: position -> [unit, cell_type]
    action_queue,  \* CombatEngine.action_queue
    combat_log,    \* global_log.combat_log, the list every engine refers to
    all_units,     \* the all_units list of the running frame
    spells,        \* the spell objects of the process: instance -> [target, range]
    rng,           \* CombatEngine.rng: [seed, entropy, pos]
    teams,         \* the two lists passed to simulate_combat
    raised,        \* message of the exception that left the last call, "" if none
    other,         \* the engine and board of a second battle of the process
    calls,         \* number of API calls made by a caller of the board or of a unit
    last           \* the last such call: its arguments, what it returned, the state before

vars == <<pc, result, frame_number, units, cells, action_queue, combat_log,
          all_units, spells, rng, teams, raised, other, calls, last>>

-----------------------------------------------------------------------------
(* Bounds of the model *)

BoardW == 4
BoardH == 3
NumUnits == 4
MaxCalls == 4

(* Program constants *)

max_frames == 500
attack_delay == 10
move_delay == 4
basic_attack_mana == 10

None == 0
NoPos == <<>>

Pos == (0 .. BoardW - 1) \X (0 .. BoardH - 1)
UnitIds == 1 .. NumUnits

Max(a, b) == IF a >= b THEN a ELSE b
Min(a, b) == IF a <= b THEN a ELSE b
Abs(a) == IF a >= 0 THEN a ELSE -a

RECURSIVE SumSeq(_)
SumSeq(s) == IF s = <<>> THEN 0 ELSE Head(s) + SumSeq(Tail(s))

SeqToSet(s) == {s[i] : i \in 1 .. Len(s)}

-----------------------------------------------------------------------------
(* constant_types.py *)

EMPTY == "EMPTY"
PLANNED == "PLANNED"
UNIT == "UNIT"

PHYSICAL == "physical"
MAGICAL == "magical"
TRUE_DMG == "true"

MOVE == "move"
ATTACK == "attack"
CAST_SPELL == "cast_spell"
WAIT == "wait"

-----------------------------------------------------------------------------
(* spells.py: the spell classes and their constructor values *)

SpellClass(name) ==
    CASE name = "Fireball" ->
            [name |-> "Fireball", ranged |-> TRUE, spell_delay |-> 2,
             range |-> 5, damage |-> 250]
      [] name = "Heal" ->
            [name |-> "Heal", ranged |-> FALSE, spell_delay |-> 1,
             range |-> 0, damage |-> 100]
      [] name = "Assassin Blink" ->
            [name |-> "Assassin Blink", ranged |-> TRUE, spell_delay |-> 3,
             range |-> 3, damage |-> 100]
      [] name = "Attack Speed Buff" ->
            [name |-> "Attack Speed Buff", ranged |-> FALSE, spell_delay |-> 1,
             range |-> 0, damage |-> 25]
      [] OTHER ->
            [name |-> "Spin Slash", ranged |-> FALSE, spell_delay |-> 2,
             range |-> 0, damage |-> 100]

(* units.py: UnitStats and the templates of Unit._get_default_stats.       *)
(* spell_power is in tenths, crit_rate in percent, crit_dmg and            *)
(* attack_speed in hundredths.                                             *)
UnitStats(health, attack, spell_power, defense, resistance, range, crit_rate, max_mana, attack_speed, spell) ==
    [health |-> health, attack |-> attack, spell_power |-> spell_power,
     defense |-> defense, resistance |-> resistance, range |-> range,
     crit_rate |-> crit_rate, crit_dmg |-> 150, max_mana |-> max_mana,
     attack_speed |-> attack_speed, spell |-> spell]

DefaultStats(unit_type) ==
    CASE unit_type = "warrior" ->
            UnitStats(1200, 65, 10, 40, 40, 1, 25, 100, 100, "Fireball")
      [] unit_type = "archer" ->
            UnitStats(700, 60, 10, 20, 20, 4, 25, 70, 100, "Attack Speed Buff")
      [] unit_type = "mage" ->
            UnitStats(600, 40, 25, 20, 20, 4, 25, 50, 100, "Fireball")
      [] unit_type = "tank" ->
            UnitStats(1500, 50, 10, 60, 60, 1, 25, 100, 80, "Heal")
      [] unit_type = "assassin" ->
            UnitStats(800, 60, 10, 25, 30, 1, 50, 50, 120, "Assassin Blink")
      [] unit_type = "support" ->
            UnitStats(900, 25, 10, 20, 20, 4, 25, 80, 100, "Fireball")
      [] OTHER ->
            UnitStats(100, 10, 10, 5, 5, 1, 25, 100, 100, "Fireball")

UnitTypes == {"warrior", "archer", "mage", "tank", "assassin", "support"}

(* The spell object a unit's base_stats.spell refers to.  UnitStats.spell   *)
(* defaults to one FireballSpell() built when the class is defined, so     *)
(* every unit whose template names no spell holds that same object         *)
(* (instance 0); a template that names a spell builds a new object for     *)
(* each unit (instance = unit id).                                         *)
SpellInstance(u, unit_type) ==
    IF DefaultStats(unit_type).spell = "Fireball" THEN 0 ELSE u

-----------------------------------------------------------------------------
(* board.py: BoardCell *)

EmptyCell == [unit |-> None, cell_type |-> EMPTY]

CellIsEmpty(c) == c.unit = None /\ c.cell_type = EMPTY
CellIsPlanned(c) == c.cell_type = PLANNED
CellIsOccupied(c) == c.cell_type = UNIT

(* board.py: Board.is_valid_position *)
IsValidPosition(p) ==
    /\ 0 <= p[1] /\ p[1] < BoardW
    /\ 0 <= p[2] /\ p[2] < BoardH

(* board.py: Board.is_valid_initial_position *)
IsValidInitialPosition(p, team) ==
    IF ~IsValidPosition(p) THEN FALSE
    ELSE IF team = 1 THEN p[2] < BoardH \div 2
    ELSE IF team = 2 THEN p[2] >= BoardH \div 2
    ELSE FALSE

(* A call returns the world it leaves and its return value; an exception   *)
(* that leaves the call is recorded in the world's "raised" field.         *)
Ret(w, v) == [w |-> w, ret |-> v]
Raise(w, msg) == [w EXCEPT !.raised = msg]

(* BoardCell.place_unit *)
CellPlaceUnit(w, pos, u) ==
    IF ~(CellIsEmpty(w.cells[pos]) \/ CellIsPlanned(w.cells[pos]))
    THEN Raise(w, "Cell is not empty or planned")
    ELSE [w EXCEPT !.cells[pos] = [unit |-> u, cell_type |-> UNIT],
                   !.units[u].position = pos]

(* BoardCell.remove_unit *)
CellRemoveUnit(w, pos) ==
    LET u == w.cells[pos].unit
        w1 == [w EXCEPT !.cells[pos] = EmptyCell]
    IN IF u # None THEN [w1 EXCEPT !.units[u].position = NoPos]
       ELSE Raise(w1, "Tried to remove unit from cell")

(* BoardCell.set_planned followed by the assignment of Board.set_planned *)
BoardSetPlanned(w, pos, u) ==
    IF ~IsValidPosition(pos) THEN Raise(w, "Position does not exist on the board")
    ELSE IF CellIsEmpty(w.cells[pos])
    THEN [w EXCEPT !.cells[pos] = [unit |-> u, cell_type |-> PLANNED]]
    ELSE Raise(w, "Cell is not empty or already planned")

(* Board.place_unit *)
BoardPlaceUnit(w, u, pos) ==
    IF ~IsValidPosition(pos) THEN Ret(w, FALSE)
    ELSE IF ~CellIsEmpty(w.cells[pos]) THEN Ret(w, FALSE)
    ELSE Ret(CellPlaceUnit(w, pos, u), TRUE)

(* A move that is refused whenever the destination is reserved, be it for  *)
(* the moving unit: C34 tells it from Board.move_unit.                     *)
BoardMoveUnitNoReserved(w, from_pos, to_pos) ==
    IF ~(IsValidPosition(from_pos) /\ IsValidPosition(to_pos)) THEN Ret(w, FALSE)
    ELSE IF w.cells[from_pos].unit = None THEN Ret(w, FALSE)
    ELSE LET u == w.cells[from_pos].unit
             w1 == [w EXCEPT !.units[u].planned_position = NoPos]
             to_cell == w.cells[to_pos]
             Placed(w3) == Ret(w3, w3.raised = "")
         IN IF CellIsPlanned(to_cell) \/ CellIsOccupied(to_cell)
            THEN Ret(w1, FALSE)
            ELSE Placed(CellPlaceUnit(CellRemoveUnit(w1, from_pos), to_pos, u))

(* Board.move_unit: planned_position is cleared before the destination is  *)
(* examined.                                                               *)
BoardMoveUnit(w, from_pos, to_pos) ==
    IF ~(IsValidPosition(from_pos) /\ IsValidPosition(to_pos)) THEN Ret(w, FALSE)
    ELSE IF w.cells[from_pos].unit = None THEN Ret(w, FALSE)
    ELSE LET u == w.cells[from_pos].unit
             w1 == [w EXCEPT !.units[u].planned_position = NoPos]
             to_cell == w.cells[to_pos]
             Placed(w3) == Ret(w3, w3.raised = "")
         IN IF (CellIsPlanned(to_cell) /\ to_cell.unit # u) \/ CellIsOccupied(to_cell)
            THEN Ret(w1, FALSE)
            ELSE Placed(CellPlaceUnit(CellRemoveUnit(w1, from_pos), to_pos, u))

(* Board.remove_unit *)
BoardRemoveUnit(w, pos) ==
    IF ~IsValidPosition(pos) THEN Raise(w, "Position does not exist on the board")
    ELSE IF ~CellIsEmpty(w.cells[pos]) THEN CellRemoveUnit(w, pos)
    ELSE Raise(w, "Tried to remove unit from empty cell")

(* Board.get_units: one entry for every cell that refers to a unit *)
BoardGetUnits(w) ==
    LET order == [i \in 1 .. BoardW * BoardH |-> <<(i - 1) \div BoardH, (i - 1) % BoardH>>]
        held == SelectSeq(order, LAMBDA p : w.cells[p].unit # None)
    IN [i \in 1 .. Len(held) |-> w.cells[held[i]].unit]

-----------------------------------------------------------------------------
(* units.py: Unit *)

Stats(unit) == DefaultStats(unit.unit_type)

(* Health is counted in 1/HealthDen health points and mana in 1/ManaDen    *)
(* mana points.  50*HealthDen is a multiple of 100+d for every defense and *)
(* resistance d of the templates (5, 20, 25, 30, 40, 60), so the mitigated *)
(* amount of a raw value given in halves is a whole number of parts.       *)
HealthDen == 16 * 3 * 5 * 7 * 13
ManaDen == 100 * HealthDen

(* Unit.get_max_health: health * (1 + (level - 1) * 0.5), in 1/HealthDen *)
GetMaxHealth(unit) == (Stats(unit).health * (unit.level + 1) * HealthDen) \div 2

(* Unit.get_attack: attack * (1 + (level - 1) * 0.3), in halves *)
GetAttack(unit) == (Stats(unit).attack * (10 + 3 * (unit.level - 1))) \div 5

(* Unit.get_defense, Unit.get_resistance *)
GetDefense(unit) == Stats(unit).defense
GetResistance(unit) == Stats(unit).resistance

(* Unit.get_attack_speed: base attack speed times the attack_speed buff,   *)
(* in 1/10000                                                              *)
GetAttackSpeed(unit) == Stats(unit).attack_speed * unit.attack_speed_buff

(* Unit.is_alive *)
IsAlive(unit) == unit.current_health > 0

MaxMana(unit) == Stats(unit).max_mana * ManaDen

(* A unit that gains the mana of two basic attacks per attack: C10 tells it *)
(* from Unit.add_basic_attack_mana.                                        *)
AddBasicAttackManaTwice(unit) ==
    [unit EXCEPT !.current_mana = @ + 2 * basic_attack_mana * ManaDen]

(* Unit.add_basic_attack_mana: no cap *)
AddBasicAttackMana(unit) ==
    [unit EXCEPT !.current_mana = @ + basic_attack_mana * ManaDen]

(* Unit.premigitation_mana: 0.01 * dmg of the raw value (in halves), capped *)
PremitigationMana(unit, value) ==
    [unit EXCEPT !.current_mana = Min(MaxMana(unit), @ + value * (HealthDen \div 2))]

(* Unit.postmigitation_mana: 0.07 * dmg of the applied amount (in 1/HealthDen), capped *)
PostmitigationMana(unit, actual) ==
    [unit EXCEPT !.current_mana = Min(MaxMana(unit), @ + 7 * actual)]

(* damage.py: Damage; value in halves *)
Damage(value, frame, dmg_type, crit, heal) ==
    [value |-> value, frame_number |-> frame, dmg_type |-> dmg_type,
     crit |-> crit, heal |-> heal]

(* combat_event.py: CombatEvent; damage in 1/HealthDen *)
CombatEvent(frame, event_type, source, target, spell_name, damage, crit, position) ==
    [frame_number |-> frame, event_type |-> event_type, source |-> source,
     target |-> target, spell_name |-> spell_name, damage |-> damage,
     crit_bool |-> crit, position |-> position]

Append2Log(w, e) == [w EXCEPT !.log = Append(@, e)]

(* A mitigation that reduces Magical damage by the defense and does not    *)
(* keep the floor of 1 for it: C9 tells it from the mitigation of          *)
(* Unit.take_damage.                                                       *)
MitigatedByDefense(unit, damage_obj) ==
    IF damage_obj.dmg_type = TRUE_DMG
    THEN damage_obj.value * (HealthDen \div 2)
    ELSE Max(HealthDen, damage_obj.value * ((50 * HealthDen) \div (100 + GetDefense(unit))))

(* The mitigated amount of Unit.take_damage, in 1/HealthDen: lines 145-150. *)
(* value * 100 / (100 + d) of a value in halves is value * 50 / (100 + d). *)
MitigatedDamage(unit, damage_obj) ==
    CASE damage_obj.dmg_type = PHYSICAL ->
            Max(HealthDen, damage_obj.value * ((50 * HealthDen) \div (100 + GetDefense(unit))))
      [] damage_obj.dmg_type = MAGICAL ->
            Max(HealthDen, damage_obj.value * ((50 * HealthDen) \div (100 + GetResistance(unit))))
      [] damage_obj.dmg_type = TRUE_DMG ->
            damage_obj.value * (HealthDen \div 2)
      [] OTHER -> -1

(* A take_damage that logs the mitigated damage, not the part of it that  *)
(* the remaining health absorbed: C18 tells it from take_damage.           *)
TakeDamageLogsMitigated(w, u, damage_obj, source, spell_name) ==
    IF damage_obj.heal
    THEN Ret(Raise(w, "Damage object indicates healing"), 0)
    ELSE IF damage_obj.dmg_type \notin {PHYSICAL, MAGICAL, TRUE_DMG}
    THEN Ret(Raise([w EXCEPT !.units[u] = PremitigationMana(@, damage_obj.value)],
                   "mitigated_damage referenced before assignment"), 0)
    ELSE LET Applied(unit1, mitigated_damage, actual_damage) ==
                 LET unit3 == PostmitigationMana([unit1 EXCEPT !.current_health = @ - actual_damage], actual_damage)
                 IN Ret(Append2Log([w EXCEPT !.units[u] = unit3],
                                   CombatEvent(damage_obj.frame_number, "damage_dealt", source, u,
                                               spell_name, mitigated_damage, damage_obj.crit, unit3.position)),
                        actual_damage)
             Mitigated(unit1) == Applied(unit1, MitigatedDamage(unit1, damage_obj),
                                         Min(MitigatedDamage(unit1, damage_obj), unit1.current_health))
         IN Mitigated(PremitigationMana(w.units[u], damage_obj.value))

(* Unit.take_damage.  With a type tag that is no DamageType the local      *)
(* mitigated_damage is unbound when line 153 reads it: the call raises     *)
(* after premigitation_mana has run.                                       *)
TakeDamage(w, u, damage_obj, source, spell_name) ==
    IF damage_obj.heal
    THEN Ret(Raise(w, "Damage object indicates healing"), 0)
    ELSE IF damage_obj.dmg_type \notin {PHYSICAL, MAGICAL, TRUE_DMG}
    THEN Ret(Raise([w EXCEPT !.units[u] = PremitigationMana(@, damage_obj.value)],
                   "mitigated_damage referenced before assignment"), 0)
    ELSE LET Applied(unit1, actual_damage) ==
                 LET unit3 == PostmitigationMana([unit1 EXCEPT !.current_health = @ - actual_damage], actual_damage)
                 IN Ret(Append2Log([w EXCEPT !.units[u] = unit3],
                                   CombatEvent(damage_obj.frame_number, "damage_dealt", source, u,
                                               spell_name, actual_damage, damage_obj.crit, unit3.position)),
                        actual_damage)
             Mitigated(unit1) == Applied(unit1, Min(MitigatedDamage(unit1, damage_obj), unit1.current_health))
         IN Mitigated(PremitigationMana(w.units[u], damage_obj.value))

(* A heal that adds the value without the cap at the maximum: C8 tells it  *)
(* from Unit.heal.                                                         *)
HealUncapped(w, u, damage_obj, source, spell_name) ==
    IF ~damage_obj.heal
    THEN Raise(w, "Damage object does not indicate healing")
    ELSE [w EXCEPT !.units[u].current_health = @ + damage_obj.value * (HealthDen \div 2)]

(* A heal that does not look at the heal tag of the Damage: C11 tells it   *)
(* from Unit.heal.                                                         *)
HealAnyTag(w, u, damage_obj, source, spell_name) ==
    LET unit == w.units[u]
        healed == Min(GetMaxHealth(unit), unit.current_health + damage_obj.value * (HealthDen \div 2))
        ev == CombatEvent(0, "healing_done", source, u, spell_name,
                          damage_obj.value * (HealthDen \div 2), FALSE, unit.position)
    IN Append2Log([w EXCEPT !.units[u].current_health = healed], ev)

(* Unit.heal: the event is logged with frame_number 0 *)
Heal(w, u, damage_obj, source, spell_name) ==
    IF ~damage_obj.heal
    THEN Raise(w, "Damage object does not indicate healing")
    ELSE LET unit == w.units[u]
             healed == Min(GetMaxHealth(unit), unit.current_health + damage_obj.value * (HealthDen \div 2))
             ev == CombatEvent(0, "healing_done", source, u, spell_name,
                               damage_obj.value * (HealthDen \div 2), FALSE, unit.position)
         IN Append2Log([w EXCEPT !.units[u].current_health = healed], ev)

(* Unit.get_basic_final_damage: (value in halves, crit); crit_roll in percent. *)
(* A crit is int(base_damage * crit_dmg).                                  *)
GetBasicFinalDamage(unit, crit_roll) ==
    IF crit_roll < Stats(unit).crit_rate
    THEN <<2 * ((GetAttack(unit) * Stats(unit).crit_dmg) \div 200), TRUE>>
    ELSE <<GetAttack(unit), FALSE>>

(* Unit.__init__ / __post_init__ *)
NewUnit(unit_type, team, level, health, mana) ==
    [unit_type |-> unit_type, team |-> team, level |-> level,
     position |-> NoPos, planned_position |-> NoPos,
     current_health |-> health, current_mana |-> mana,
     current_target |-> None, basic_attack_overflow |-> 0,
     attack_speed_buff |-> 100]

-----------------------------------------------------------------------------
(* board.py: distances and neighbourhoods of the orthogonal Board *)

(* Board.l1_distance *)
L1Distance(p, q) == Abs(p[1] - q[1]) + Abs(p[2] - q[2])

(* The square of Board.l2_distance *)
L2Squared(p, q) == (p[1] - q[1]) * (p[1] - q[1]) + (p[2] - q[2]) * (p[2] - q[2])

RECURSIVE ISqrtBetween(_, _, _)
ISqrtBetween(n, lo, hi) ==
    IF lo = hi THEN lo
    ELSE LET mid == (lo + hi + 1) \div 2
         IN IF mid * mid <= n THEN ISqrtBetween(n, mid, hi)
            ELSE ISqrtBetween(n, lo, mid - 1)

(* Board.l2_distance in thousandths, rounded down *)
SqrtTable == [n \in 0 .. (BoardW * BoardW + BoardH * BoardH) |-> ISqrtBetween(n * 1000000, 0, 1000 * (BoardW + BoardH))]
L2Distance(p, q) == SqrtTable[L2Squared(p, q)]

(* Neighbours that include the four diagonal cells, the line that          *)
(* get_adjacent_positions keeps as a comment: C13 tells it from            *)
(* Board.get_adjacent_positions.                                           *)
GetAdjacentPositionsDiagonal(p) ==
    SelectSeq(<< <<p[1] + 1, p[2]>>, <<p[1] - 1, p[2]>>, <<p[1], p[2] + 1>>, <<p[1], p[2] - 1>>,
                 <<p[1] + 1, p[2] + 1>>, <<p[1] + 1, p[2] - 1>>, <<p[1] - 1, p[2] + 1>>, <<p[1] - 1, p[2] - 1>> >>,
              IsValidPosition)

(* Board.get_adjacent_positions, in the order of the list *)
GetAdjacentPositions(p) ==
    SelectSeq(<< <<p[1] + 1, p[2]>>, <<p[1] - 1, p[2]>>, <<p[1], p[2] + 1>>, <<p[1], p[2] - 1>> >>, IsValidPosition)

(* The positions of the board in the order of two nested range() loops,    *)
(* x outside and y inside                                                  *)
BoardOrder == [i \in 1 .. BoardW * BoardH |-> <<(i - 1) \div BoardH, (i - 1) % BoardH>>]

(* Board.get_positions_in_l2_range for a whole-number range *)
GetPositionsInL2Range(p, l2_range) ==
    SelectSeq(BoardOrder, LAMBDA q : L2Squared(p, q) <= l2_range * l2_range)

(* Board.get_positions_in_l1_range: dx outside, dy inside *)
GetPositionsInL1Range(p, l1_range) ==
    LET side == 2 * l1_range + 1
        square == [i \in 1 .. side * side |-> <<p[1] - l1_range + ((i - 1) \div side), p[2] - l1_range + ((i - 1) % side)>>]
    IN SelectSeq(square, LAMBDA q : L1Distance(p, q) <= l1_range /\ IsValidPosition(q))

-----------------------------------------------------------------------------
(* board.py: A* search.  The open set is a queue.PriorityQueue of          *)
(* (f_score, position) tuples; get() returns the least tuple.  The test    *)
(* "neighbor not in open_set.queue" compares a position with such tuples   *)
(* and never finds it, so every improvement is queued.  g_score is counted *)
(* in 1/StepCost.                                                          *)

StepCost == 100000
HorizontalBonus == 2000
NoScore == -1
Infinity == 1000000

TupleLeq(a, b) ==
    \/ a[1] < b[1]
    \/ a[1] = b[1] /\ a[2] < b[2]
    \/ a[1] = b[1] /\ a[2] = b[2] /\ a[3] <= b[3]

RECURSIVE ReconstructPath(_, _)
ReconstructPath(came_from, current) ==
    IF came_from[current] = NoPos THEN <<current>>
    ELSE Append(ReconstructPath(came_from, came_from[current]), current)

(* A guided score whose horizontal steps cost nothing: C15 tells it from   *)
(* the tentative_g_score of find_path_guided.                              *)
TentativeGFreeRows(g, current, neighbor, target, guided) ==
    IF ~guided THEN g + StepCost
    ELSE IF Abs(neighbor[1] - current[1]) > Abs(neighbor[2] - current[2]) THEN g
    ELSE g + StepCost

(* tentative_g_score of a step from current to neighbor: lines 285 and 326-332 *)
TentativeG(g, current, neighbor, target, guided) ==
    IF ~guided THEN g + StepCost
    ELSE g + StepCost
           - Max(L2Distance(current, target) - L2Distance(neighbor, target), 0)
           - (IF Abs(neighbor[1] - current[1]) > Abs(neighbor[2] - current[2]) THEN HorizontalBonus ELSE 0)

RECURSIVE AStarLoop(_, _, _, _, _, _)
AStarLoop(cl, open_set, came_from, g_score, target, guided) ==
    IF open_set = {} THEN <<>>
    ELSE LET top == CHOOSE e \in open_set : \A o \in open_set : TupleLeq(e, o)
             current == <<top[2], top[3]>>
         IN IF current = target THEN ReconstructPath(came_from, current)
            ELSE LET passable == {n \in SeqToSet(GetAdjacentPositions(current)) : CellIsEmpty(cl[n]) \/ n = target}
                     tg(n) == TentativeG(g_score[current], current, n, target, guided)
                     better == {n \in passable : g_score[n] = NoScore \/ tg(n) < g_score[n]}
                     g2 == [p \in Pos |-> IF p \in better THEN tg(p) ELSE g_score[p]]
                     came2 == [p \in Pos |-> IF p \in better THEN current ELSE came_from[p]]
                     pushed == {<<tg(n) + L1Distance(n, target) * StepCost, n[1], n[2]>> : n \in better}
                 IN AStarLoop(cl, (open_set \ {top}) \cup pushed, came2, g2, target, guided)

AStar(cl, start, target, guided) ==
    AStarLoop(cl, {<<0, start[1], start[2]>>}, [p \in Pos |-> NoPos],
              [p \in Pos |-> IF p = start THEN 0 ELSE NoScore], target, guided)

(* Board.find_path and Board.find_path_guided, for in-bounds start and target *)
FindPath(cl, start, target) == AStar(cl, start, target, FALSE)
FindPathGuided(cl, start, target) == AStar(cl, start, target, TRUE)

(* Board.pathfind_distance *)
PathfindDistance(cl, start, target) ==
    LET Steps(path) == IF path = <<>> THEN Infinity ELSE Len(path) - 1
    IN Steps(FindPath(cl, start, target))

(* Candidate cells that are not filtered by emptiness: C16 tells it from   *)
(* the candidates of find_path_to_range_guided.                            *)
RangeCandidatesAnyCell(cl, start, target, attack_range) ==
    GetPositionsInL2Range(target, attack_range)

(* The candidate cells of pathfind_distance_to_range and find_path_to_range_guided *)
RangeCandidates(cl, start, target, attack_range) ==
    SelectSeq(GetPositionsInL2Range(target, attack_range), LAMBDA q : CellIsEmpty(cl[q]) \/ q = start)

RECURSIVE MinDistance(_, _, _, _)
MinDistance(cl, start, candidates, best) ==
    IF candidates = <<>> THEN best
    ELSE LET Least(d) == IF d < best THEN d ELSE best
         IN MinDistance(cl, start, Tail(candidates), Least(PathfindDistance(cl, start, Head(candidates))))

(* Board.pathfind_distance_to_range *)
PathfindDistanceToRange(cl, start, target, attack_range) ==
    MinDistance(cl, start, RangeCandidates(cl, start, target, attack_range), Infinity)

RECURSIVE ShortestGuided(_, _, _, _)
ShortestGuided(cl, start, candidates, best) ==
    IF candidates = <<>> THEN best
    ELSE LET Shortest(path) == IF path # <<>> /\ (best = <<>> \/ Len(path) < Len(best)) THEN path ELSE best
         IN ShortestGuided(cl, start, Tail(candidates), Shortest(FindPathGuided(cl, start, Head(candidates))))

(* Board.find_path_to_range_guided *)
FindPathToRangeGuided(cl, start, target, attack_range) ==
    ShortestGuided(cl, start, RangeCandidates(cl, start, target, attack_range), <<>>)

-----------------------------------------------------------------------------
(* combat.py: the engine's random generator.  random.Random(seed) is a     *)
(* fixed stream of numbers for each seed; an engine built without a seed   *)
(* takes its seed from the system.  The stream of seed s repeats the       *)
(* SeedDigits base-3 digits of s, each digit one of three draws (in        *)
(* percent of the unit interval).                                          *)

SeedDigits == 2
RollValues == <<10, 40, 90>>

RECURSIVE Pow3(_)
Pow3(n) == IF n = 0 THEN 1 ELSE 3 * Pow3(n - 1)

Seeds == 0 .. Pow3(SeedDigits) - 1

Stream(seed, pos) == RollValues[((seed \div Pow3(pos % SeedDigits)) % 3) + 1]

(* random.Random(combat_seed) if combat_seed is not None else random.Random(): *)
(* rng.seed is combat_seed (NoSeed for None), rng.entropy what the system   *)
(* supplies to an unseeded generator.                                      *)
NoSeed == 0 - 1
EffectiveSeed(r) == IF r.seed # NoSeed THEN r.seed ELSE r.entropy

(* A draw from the entropy of the process whatever the seed: C3 tells it   *)
(* from a draw of the engine's seeded generator.                           *)
EntropyRandom(w) == Stream(w.rng.entropy, w.rng.pos)

(* self.rng.random() *)
NextRandom(w) == Stream(EffectiveSeed(w.rng), w.rng.pos)
Advance(w) == [w EXCEPT !.rng.pos = @ + 1]

(* self.rng.choice(seq): the index chosen among n *)
ChoiceIndex(roll, n) == ((roll * n) \div 100) + 1

-----------------------------------------------------------------------------
(* spells.py *)

Spell(unit) == SpellClass(Stats(unit).spell)
Inst(w, u) == SpellInstance(u, w.units[u].unit_type)

(* The first position of seq that is farthest from p: list.sort with       *)
(* reverse=True is stable, and the spell takes element 0.                  *)
FarthestFrom(p, seq) ==
    LET i == CHOOSE i \in 1 .. Len(seq) :
                /\ \A j \in 1 .. Len(seq) : L1Distance(p, seq[j]) <= L1Distance(p, seq[i])
                /\ \A j \in 1 .. i - 1 : L1Distance(p, seq[j]) < L1Distance(p, seq[i])
    IN seq[i]

(* FireballSpell.prepare, SelfHealSpell.prepare, AttackSpeedBuffSpell.prepare, *)
(* AssassinBlinkSpell.prepare: the world with the spell's target set, and  *)
(* the value returned                                                      *)
BlinkCandidates(w, u) ==
    SelectSeq(GetPositionsInL1Range(w.units[u].position, w.spells[Inst(w, u)].range),
              LAMBDA q : /\ ~CellIsEmpty(w.cells[q]) /\ ~CellIsPlanned(w.cells[q])
                         /\ w.units[w.cells[q].unit].team # w.units[u].team
                         /\ IsAlive(w.units[w.cells[q].unit]))

WeakestEnemy(w, u) ==
    LET Health(q) == w.units[w.cells[q].unit].current_health
        Weakest(cand) ==
            IF cand = <<>> THEN None
            ELSE LET i == CHOOSE i \in 1 .. Len(cand) :
                             /\ \A j \in 1 .. Len(cand) : Health(cand[i]) <= Health(cand[j])
                             /\ \A j \in 1 .. i - 1 : Health(cand[j]) > Health(cand[i])
                 IN w.cells[cand[i]].unit
    IN Weakest(BlinkCandidates(w, u))

SpellPrepare(w, u) ==
    LET name == Stats(w.units[u]).spell
        Prepared(target) == Ret([w EXCEPT !.spells[Inst(w, u)].target = target], target # None)
    IN Prepared(CASE name = "Fireball" -> w.units[u].current_target
                  [] name = "Assassin Blink" -> WeakestEnemy(w, u)
                  [] OTHER -> u)

(* A splash that also enters the reserved cells next to the target: C33    *)
(* tells it from the loop of FireballSpell.execute.                        *)
RECURSIVE FireballSplashThroughReserved(_, _, _, _, _)
FireballSplashThroughReserved(w, source, target, adjacent, value) ==
    IF adjacent = <<>> \/ w.raised # "" THEN w
    ELSE LET c == w.cells[Head(adjacent)]
         IN IF /\ ~CellIsEmpty(c)
               /\ IsAlive(w.units[c.unit]) /\ c.unit # target
               /\ w.units[c.unit].team = w.units[target].team
            THEN FireballSplashThroughReserved(
                     TakeDamage(w, c.unit, Damage(value, w.frame_number, MAGICAL, FALSE, FALSE), source, "Fireball").w,
                     source, target, Tail(adjacent), value)
            ELSE FireballSplashThroughReserved(w, source, target, Tail(adjacent), value)

(* SpinSlashSpell.execute, the loop over the cells next to the caster;     *)
(* 100 * spell_power in halves is 20 * tenths                              *)
RECURSIVE SpinSlashLoop(_, _, _)
SpinSlashLoop(w, source, adjacent) ==
    IF adjacent = <<>> \/ w.raised # "" THEN w
    ELSE LET c == w.cells[Head(adjacent)]
         IN IF /\ ~CellIsEmpty(c) /\ ~CellIsPlanned(c)
               /\ w.units[c.unit].team # w.units[source].team
               /\ IsAlive(w.units[c.unit])
            THEN SpinSlashLoop(TakeDamage(w, c.unit,
                                          Damage(20 * Stats(w.units[source]).spell_power, w.frame_number, PHYSICAL, FALSE, FALSE),
                                          source, "Spin Slash").w,
                               source, Tail(adjacent))
            ELSE SpinSlashLoop(w, source, Tail(adjacent))

SpinSlashExecute(w, source) ==
    IF w.units[source].position = NoPos \/ ~IsValidPosition(w.units[source].position)
    THEN Raise(w, "Position is out of bounds")
    ELSE SpinSlashLoop(w, source, GetAdjacentPositions(w.units[source].position))

RECURSIVE FireballSplash(_, _, _, _, _)
FireballSplash(w, source, target, adjacent, value) ==
    IF adjacent = <<>> \/ w.raised # "" THEN w
    ELSE LET c == w.cells[Head(adjacent)]
         IN IF /\ ~CellIsEmpty(c) /\ ~CellIsPlanned(c)
               /\ IsAlive(w.units[c.unit]) /\ c.unit # target
               /\ w.units[c.unit].team = w.units[target].team
            THEN FireballSplash(TakeDamage(w, c.unit, Damage(value, w.frame_number, MAGICAL, FALSE, FALSE), source, "Fireball").w,
                                source, target, Tail(adjacent), value)
            ELSE FireballSplash(w, source, target, Tail(adjacent), value)

(* FireballSpell.execute; 250 * spell_power in halves is 50 * tenths *)
FireballExecute(w, source) ==
    LET target == w.spells[Inst(w, source)].target
        value == 50 * Stats(w.units[source]).spell_power
        Splash(w1) ==
            IF w1.units[target].position = NoPos THEN Raise(w1, "Position is out of bounds")
            ELSE FireballSplash(w1, source, target, GetAdjacentPositions(w1.units[target].position), value \div 2)
    IN IF target = None THEN Raise(w, "NoneType has no attribute unit_type")
       ELSE IF ~IsAlive(w.units[target]) THEN w
       ELSE Splash(TakeDamage(w, target, Damage(value, w.frame_number, MAGICAL, FALSE, FALSE), source, "Fireball").w)

(* SelfHealSpell.execute; 100 * spell_power in halves is 20 * tenths *)
SelfHealExecute(w, source) ==
    LET target == w.spells[Inst(w, source)].target
    IN IF IsAlive(w.units[target])
       THEN Heal(w, source, Damage(20 * Stats(w.units[source]).spell_power, w.frame_number, "none", FALSE, TRUE), source, "Heal")
       ELSE w

(* AttackSpeedBuffSpell.execute: buffs["attack_speed"] grows by 0.25 *)
AttackSpeedBuffExecute(w, source) ==
    LET target == w.spells[Inst(w, source)].target
    IN IF IsAlive(w.units[target])
       THEN [w EXCEPT !.units[source].attack_speed_buff = @ + 25]
       ELSE w

(* AssassinBlinkSpell.execute *)
BlinkLanding(w, source, positions) ==
    SelectSeq(positions, LAMBDA q : (CellIsEmpty(w.cells[q]) /\ ~CellIsPlanned(w.cells[q])) \/ q = w.units[source].position)

AssassinBlinkExecute(w, source) ==
    LET inst == Inst(w, source)
        target == w.spells[inst].target
        from == w.units[source].position
        Blink(near, far) ==
            IF near # <<>> THEN BoardMoveUnit(w, from, FarthestFrom(from, near)).w
            ELSE IF far # <<>> THEN BoardMoveUnit(w, from, FarthestFrom(from, far)).w
            ELSE w
        Strike(w1) ==
            TakeDamage(w1, target, Damage(20 * Stats(w.units[source]).spell_power, w.frame_number, PHYSICAL, FALSE, FALSE), source, "Assassin Blink").w
        Blinked(w3) == [w3 EXCEPT !.spells[inst].range = @ + 1]
    IN IF target # None /\ IsAlive(w.units[target])
       THEN Blinked([Strike(Blink(BlinkLanding(w, source, GetAdjacentPositions(w.units[target].position)),
                                  BlinkLanding(w, source, GetPositionsInL1Range(w.units[target].position, 2))))
                       EXCEPT !.units[source].current_target = target])
       ELSE Blinked(w)

SpellExecute(w, source) ==
    LET name == Stats(w.units[source]).spell
    IN CASE name = "Fireball" -> FireballExecute(w, source)
         [] name = "Heal" -> SelfHealExecute(w, source)
         [] name = "Attack Speed Buff" -> AttackSpeedBuffExecute(w, source)
         [] name = "Assassin Blink" -> AssassinBlinkExecute(w, source)
         [] OTHER -> w

-----------------------------------------------------------------------------
(* combat.py: PlannedAction and the planning of one unit *)

(* spell_instance holds the name of the spell instance, "" for None *)
PlannedAction(unit, action_type, spell_instance, target, target_position) ==
    [unit |-> unit, action_type |-> action_type, spell_instance |-> spell_instance,
     target |-> target, target_position |-> target_position,
     resolution_frame |-> 0, planned_frame |-> 0, start_position |-> NoPos]

WaitAction(u) == PlannedAction(u, WAIT, "", None, NoPos)

(* The scan of CombatEngine._find_target over the enemies *)
RECURSIVE ScanEnemies(_, _, _, _, _, _)
ScanEnemies(w, u, enemies, closest_enemy, min_distance, best_count) ==
    IF enemies = <<>> THEN Ret(w, closest_enemy)
    ELSE LET enemy == Head(enemies)
             rest == Tail(enemies)
             here == w.units[u].position
             Compared(distance) ==
                 IF distance = Infinity
                 THEN ScanEnemies(w, u, rest, closest_enemy, min_distance, best_count)
                 ELSE IF distance < min_distance
                 THEN ScanEnemies(w, u, rest, enemy, distance, 1)
                 ELSE IF distance = min_distance
                 THEN LET l2_current == L2Squared(here, w.units[closest_enemy].position)
                          l2_new == L2Squared(here, w.units[enemy].position)
                      IN IF l2_new < l2_current
                         THEN ScanEnemies(w, u, rest, enemy, min_distance, best_count)
                         ELSE IF l2_new = l2_current
                         THEN ScanEnemies(Advance(w), u, rest,
                                          IF NextRandom(w) * best_count < 100 THEN enemy ELSE closest_enemy,
                                          min_distance, best_count + 1)
                         ELSE ScanEnemies(w, u, rest, closest_enemy, min_distance, best_count)
                 ELSE ScanEnemies(w, u, rest, closest_enemy, min_distance, best_count)
         IN IF w.units[enemy].position = NoPos
            THEN ScanEnemies(w, u, rest, closest_enemy, min_distance, best_count)
            ELSE Compared(PathfindDistanceToRange(w.cells, here, w.units[enemy].position, Stats(w.units[u]).range))

(* A search that forgets the current target and scans afresh each time:    *)
(* C29 tells it from lines 498-503.                                        *)
FindTargetAfresh(w, u, enemies) ==
    LET Found(r) == Ret([r.w EXCEPT !.units[u].current_target = r.ret], r.ret)
    IN IF enemies = <<>> \/ w.units[u].position = NoPos THEN Ret(w, None)
       ELSE Found(ScanEnemies(w, u, enemies, None, Infinity, 1))

(* CombatEngine._find_target; "<= 1.66" on a whole number of steps is "<= 1" *)
FindTarget(w, u, enemies) ==
    LET unit == w.units[u]
        ct == unit.current_target
        Found(r) == Ret([r.w EXCEPT !.units[u].current_target = r.ret], r.ret)
    IN IF enemies = <<>> \/ unit.position = NoPos THEN Ret(w, None)
       ELSE IF /\ ct # None /\ ct \in SeqToSet(enemies)
               /\ PathfindDistanceToRange(w.cells, unit.position, w.units[ct].position, Stats(unit).range) <= 1
       THEN Ret(w, ct)
       ELSE Found(ScanEnemies(w, u, enemies, None, Infinity, 1))

(* A planner that aims at the end of the path instead of its first step:   *)
(* C35 tells it from CombatEngine._plan_movement.                          *)
PlanMovementToEnd(w, u, target) ==
    LET unit == w.units[u]
        LastStep(path) ==
            IF path = <<>> THEN Ret(w, unit.position)
            ELSE Ret(w, path[Len(path)])
    IN LastStep(FindPathToRangeGuided(w.cells, unit.position, w.units[target].position, Stats(unit).range))

(* CombatEngine._plan_movement *)
PlanMovement(w, u, target) ==
    LET unit == w.units[u]
        NextStep(path) ==
            IF path = <<>> THEN Ret(w, unit.position)
            ELSE IF Len(path) < 2 THEN Ret(Raise(w, "list index out of range"), NoPos)
            ELSE Ret(w, path[2])
    IN NextStep(FindPathToRangeGuided(w.cells, unit.position, w.units[target].position, Stats(unit).range))

(* The cast of lines 299-309 and 336-346 *)
PlanCast(w, u) ==
    LET Cast(r) ==
            IF r.ret
            THEN Ret([r.w EXCEPT !.units[u].current_mana = @ - MaxMana(w.units[u])],
                     PlannedAction(u, CAST_SPELL, Stats(w.units[u]).spell, r.w.spells[Inst(w, u)].target, NoPos))
            ELSE Ret(Raise(r.w, "Invalid prepare for spell"), WaitAction(u))
    IN Cast(SpellPrepare(w, u))

(* A range test that reaches four cells farther: C17 tells it from the     *)
(* distance tests of _plan_unit_action.                                    *)
WithinL2AndFour(p, q, bound, hundredths) ==
    10000 * L2Squared(p, q) <= (100 * (bound + 4) + hundredths) * (100 * (bound + 4) + hundredths)

(* distance <= bound + hundredths / 100, on the squares *)
WithinL2(p, q, bound, hundredths) ==
    10000 * L2Squared(p, q) <= (100 * bound + hundredths) * (100 * bound + hundredths)

(* CombatEngine._plan_unit_action *)
PlanUnitAction(w, u) ==
    LET unit == w.units[u]
        enemies == SelectSeq(w.all_units, LAMBDA e : IsAlive(w.units[e]) /\ w.units[e].team # unit.team)
        Moved(m) ==
            IF m.ret = unit.position THEN Ret(m.w, WaitAction(u))
            ELSE Ret(m.w, PlannedAction(u, MOVE, "", None, m.ret))
        Targeted(w1, target) ==
            IF target = None \/ w1.units[target].position = NoPos THEN Ret(w1, WaitAction(u))
            ELSE IF /\ unit.current_mana >= MaxMana(unit) /\ Spell(unit).ranged
                    /\ WithinL2(unit.position, w1.units[target].position, w1.spells[Inst(w, u)].range, 1)
            THEN PlanCast(w1, u)
            ELSE IF WithinL2(unit.position, w1.units[target].position, Stats(unit).range, 66)
            THEN Ret(w1, PlannedAction(u, ATTACK, "", target, NoPos))
            ELSE Moved(PlanMovement(w1, u, target))
        Found(f) == Targeted(f.w, f.ret)
    IN IF enemies = <<>> \/ unit.position = NoPos THEN Ret(w, WaitAction(u))
       ELSE IF unit.current_mana >= MaxMana(unit) /\ ~Spell(unit).ranged THEN PlanCast(w, u)
       ELSE Found(FindTarget(w, u, enemies))

-----------------------------------------------------------------------------
(* combat.py: CombatEngine._plan_actions *)

(* math.ceil(initiative_needed / speed), both in 1/10000.  The quotient is *)
(* a float: where the exact quotient is a whole number the float quotient  *)
(* may lie just above it.  Of the quotients the units of the templates     *)
(* reach (speeds 0.8, 1.0, 1.2 and 1.0 plus quarters), only 9.6 / 1.2 does:*)
(* it evaluates to 8.000000000000002, whose ceiling is 9.                  *)
CeilOfQuotient(initiative_needed, speed) ==
    -((-initiative_needed) \div speed)
        + (IF initiative_needed = 96000 /\ speed = 12000 THEN 1 ELSE 0)

(* Lines 209-222.  Initiative and attack speed are counted in 1/10000.     *)
SetTiming(w, action) ==
    LET u == action.unit
        unit == w.units[u]
        placed == [action EXCEPT !.planned_frame = w.frame_number, !.start_position = unit.position]
    IN CASE action.action_type = ATTACK ->
              LET initiative_needed == attack_delay * 10000 - unit.basic_attack_overflow
                  rounded_frames == CeilOfQuotient(initiative_needed, GetAttackSpeed(unit))
              IN Ret([w EXCEPT !.units[u].basic_attack_overflow = rounded_frames * GetAttackSpeed(unit) - initiative_needed],
                     [placed EXCEPT !.resolution_frame = w.frame_number + rounded_frames])
         [] action.action_type = CAST_SPELL ->
              Ret(w, [placed EXCEPT !.resolution_frame = w.frame_number + Spell(unit).spell_delay])
         [] OTHER -> Ret(w, [placed EXCEPT !.resolution_frame = w.frame_number + move_delay])

(* position_conflicts is a dict: a sequence of entries in insertion order *)
AddConflict(conflicts, action) ==
    IF \E i \in DOMAIN conflicts : conflicts[i].pos = action.target_position
    THEN [i \in DOMAIN conflicts |->
            IF conflicts[i].pos = action.target_position
            THEN [conflicts[i] EXCEPT !.actions = Append(@, action)]
            ELSE conflicts[i]]
    ELSE Append(conflicts, [pos |-> action.target_position, actions |-> <<action>>])

PlanEvent(w, action) ==
    CombatEvent(w.frame_number, "action_planned", action.unit, action.target, action.spell_instance, 0, FALSE, NoPos)

(* The loop of lines 198-244 over all_units *)
RECURSIVE PlanLoop(_, _, _)
PlanLoop(w, todo, conflicts) ==
    IF w.raised # "" \/ todo = <<>> THEN [w |-> w, conflicts |-> conflicts]
    ELSE LET u == Head(todo)
             Timed(w1, action) ==
                 IF action.action_type = MOVE /\ action.target_position # NoPos
                 THEN PlanLoop(Append2Log(w1, PlanEvent(w1, action)), Tail(todo), AddConflict(conflicts, action))
                 ELSE PlanLoop(Append2Log([w1 EXCEPT !.action_queue = Append(@, action)], PlanEvent(w1, action)),
                               Tail(todo), conflicts)
             Set(t) == Timed(t.w, t.ret)
             Planned(r) ==
                 IF r.w.raised # "" \/ r.ret.action_type = WAIT
                 THEN PlanLoop(r.w, Tail(todo), conflicts)
                 ELSE Set(SetTiming(r.w, r.ret))
         IN IF ~IsAlive(w.units[u]) \/ (\E i \in DOMAIN w.action_queue : w.action_queue[i].unit = u)
            THEN PlanLoop(w, Tail(todo), conflicts)
            ELSE Planned(PlanUnitAction(w, u))

(* A move that is queued without reserving its cell: C26 tells it from     *)
(* lines 251-253 and 281-283.                                              *)
KeepMoveUnreserved(w, action) ==
    [w EXCEPT !.action_queue = Append(@, action),
              !.units[action.unit].planned_position = action.target_position]

(* Lines 251-253 and 281-283: the action is queued and its cell reserved *)
KeepMove(w, action) ==
    LET Reserved(w1) ==
            IF w1.raised # "" THEN w1
            ELSE [w1 EXCEPT !.units[action.unit].planned_position = action.target_position]
    IN Reserved(BoardSetPlanned([w EXCEPT !.action_queue = Append(@, action)], action.target_position, action.unit))

ConflictEvent(w, u, pos) ==
    CombatEvent(w.frame_number, "conflict_resolved", u, None, "", 0, FALSE, pos)

(* Lines 255-268: the other actions wait as long as a move takes *)
RECURSIVE SetOthersToWait(_, _, _)
SetOthersToWait(w, actions, chosen_action) ==
    IF actions = <<>> THEN w
    ELSE IF Head(actions) = chosen_action THEN SetOthersToWait(w, Tail(actions), chosen_action)
    ELSE LET waiting == [Head(actions) EXCEPT !.action_type = WAIT, !.resolution_frame = w.frame_number + move_delay]
         IN SetOthersToWait(Append2Log([w EXCEPT !.action_queue = Append(@, waiting)],
                                       ConflictEvent(w, waiting.unit, NoPos)),
                            Tail(actions), chosen_action)

(* A conflict resolution that lets every claimant keep its move: C25 tells *)
(* it from lines 246-283.                                                  *)
RECURSIVE ResolveConflictsKeepAll(_, _)
ResolveConflictsKeepAll(w, conflicts) ==
    IF w.raised # "" \/ conflicts = <<>> THEN w
    ELSE LET actions == Head(conflicts).actions
             chosen_action == actions[ChoiceIndex(NextRandom(w), Len(actions))]
             Others(w1) == [w1 EXCEPT !.action_queue = @ \o SelectSeq(actions, LAMBDA a : a # chosen_action)]
             Kept(w1) ==
                 IF w1.raised # "" THEN w1
                 ELSE ResolveConflictsKeepAll(Append2Log(Others(w1), ConflictEvent(w1, chosen_action.unit, Head(conflicts).pos)),
                                              Tail(conflicts))
         IN IF Len(actions) > 1
            THEN Kept(KeepMove(Advance(w), chosen_action))
            ELSE ResolveConflictsKeepAll(KeepMove(w, actions[1]), Tail(conflicts))

(* Lines 246-283 *)
RECURSIVE ResolveConflicts(_, _)
ResolveConflicts(w, conflicts) ==
    IF w.raised # "" \/ conflicts = <<>> THEN w
    ELSE LET actions == Head(conflicts).actions
             chosen_action == actions[ChoiceIndex(NextRandom(w), Len(actions))]
             Kept(w1) ==
                 IF w1.raised # "" THEN w1
                 ELSE ResolveConflicts(Append2Log(SetOthersToWait(w1, actions, chosen_action),
                                                  ConflictEvent(w1, chosen_action.unit, Head(conflicts).pos)),
                                       Tail(conflicts))
         IN IF Len(actions) > 1
            THEN Kept(KeepMove(Advance(w), chosen_action))
            ELSE ResolveConflicts(KeepMove(w, actions[1]), Tail(conflicts))

PlanActions(w) ==
    LET Resolved(planned) == ResolveConflicts(planned.w, planned.conflicts)
    IN Resolved(PlanLoop(w, w.all_units, <<>>))

-----------------------------------------------------------------------------
(* combat.py: CombatEngine._execute_queued_actions and what it calls *)

(* An attack phase that drops an attack whose target is no longer within  *)
(* the attacker's reach: C38 tells it from                                 *)
(* _execute_attacks_simultaneously.                                        *)
RECURSIVE ExecuteAttacksInReach(_, _, _)
ExecuteAttacksInReach(w, attack_actions, alive_units) ==
    IF w.raised # "" \/ attack_actions = <<>> THEN w
    ELSE LET action == Head(attack_actions)
             InReach(u, t) ==
                 /\ w.units[u].position # NoPos /\ w.units[t].position # NoPos
                 /\ WithinL2(w.units[u].position, w.units[t].position, Stats(w.units[u]).range, 66)
         IN IF \/ ~Head(alive_units) \/ action.target = None \/ ~IsAlive(w.units[action.target])
               \/ ~InReach(action.unit, action.target)
            THEN ExecuteAttacksInReach(
                     Append2Log(w, CombatEvent(w.frame_number, "failed_attack", action.unit, action.target, "", 0, FALSE, NoPos)),
                     Tail(attack_actions), Tail(alive_units))
            ELSE LET w1 == [w EXCEPT !.units[action.unit] = AddBasicAttackMana(@)]
                     final == GetBasicFinalDamage(w1.units[action.unit], NextRandom(w1))
                     damage_obj == Damage(final[1], w.frame_number, PHYSICAL, final[2], FALSE)
                 IN ExecuteAttacksInReach(
                        TakeDamage(Advance(w1), action.target, damage_obj, action.unit, "BasicAttack").w,
                        Tail(attack_actions), Tail(alive_units))

(* An attack phase that looks at the attacker's health when its attack is  *)
(* processed, not at the snapshot: C23 tells it from                       *)
(* _execute_attacks_simultaneously.                                        *)
RECURSIVE ExecuteAttacksOfSurvivors(_, _, _)
ExecuteAttacksOfSurvivors(w, attack_actions, alive_units) ==
    IF w.raised # "" \/ attack_actions = <<>> THEN w
    ELSE LET action == Head(attack_actions)
         IN IF ~IsAlive(w.units[action.unit]) \/ action.target = None \/ ~IsAlive(w.units[action.target])
            THEN ExecuteAttacksOfSurvivors(
                     Append2Log(w, CombatEvent(w.frame_number, "failed_attack", action.unit, action.target, "", 0, FALSE, NoPos)),
                     Tail(attack_actions), Tail(alive_units))
            ELSE LET w1 == [w EXCEPT !.units[action.unit] = AddBasicAttackMana(@)]
                     final == GetBasicFinalDamage(w1.units[action.unit], NextRandom(w1))
                     damage_obj == Damage(final[1], w.frame_number, PHYSICAL, final[2], FALSE)
                 IN ExecuteAttacksOfSurvivors(
                        TakeDamage(Advance(w1), action.target, damage_obj, action.unit, "BasicAttack").w,
                        Tail(attack_actions), Tail(alive_units))

RECURSIVE ExecuteAttacksSimultaneously(_, _, _)
ExecuteAttacksSimultaneously(w, attack_actions, alive_units) ==
    IF w.raised # "" \/ attack_actions = <<>> THEN w
    ELSE LET action == Head(attack_actions)
         IN IF ~Head(alive_units) \/ action.target = None \/ ~IsAlive(w.units[action.target])
            THEN ExecuteAttacksSimultaneously(
                     Append2Log(w, CombatEvent(w.frame_number, "failed_attack", action.unit, action.target, "", 0, FALSE, NoPos)),
                     Tail(attack_actions), Tail(alive_units))
            ELSE LET w1 == [w EXCEPT !.units[action.unit] = AddBasicAttackMana(@)]
                     final == GetBasicFinalDamage(w1.units[action.unit], NextRandom(w1))
                     damage_obj == Damage(final[1], w.frame_number, PHYSICAL, final[2], FALSE)
                 IN ExecuteAttacksSimultaneously(
                        TakeDamage(Advance(w1), action.target, damage_obj, action.unit, "BasicAttack").w,
                        Tail(attack_actions), Tail(alive_units))

RECURSIVE ExecuteSpellsSimultaneously(_, _)
ExecuteSpellsSimultaneously(w, spell_actions) ==
    IF w.raised # "" \/ spell_actions = <<>> THEN w
    ELSE LET action == Head(spell_actions)
             Executed(w1) ==
                 IF w1.raised # "" THEN w1
                 ELSE ExecuteSpellsSimultaneously(
                          Append2Log(w1, CombatEvent(w.frame_number, "spell_executed", action.unit, action.target,
                                                     Stats(w.units[action.unit]).spell, 0, FALSE, NoPos)),
                          Tail(spell_actions))
         IN IF ~IsAlive(w.units[action.unit]) \/ action.target = None \/ ~IsAlive(w.units[action.target])
            THEN ExecuteSpellsSimultaneously(w, Tail(spell_actions))
            ELSE Executed(SpellExecute(Advance(w), action.unit))

(* Lines 457-462: the pending actions of a unit whose move failed *)
CancelPending(w, u) ==
    [w EXCEPT !.action_queue = [i \in DOMAIN @ |->
        IF @[i].unit = u THEN [@[i] EXCEPT !.action_type = WAIT, !.start_position = NoPos] ELSE @[i]]]

RECURSIVE ExecuteMoves(_, _)
ExecuteMoves(w, valid_moves) ==
    IF w.raised # "" \/ valid_moves = <<>> THEN w
    ELSE LET action == Head(valid_moves)
             old_position == w.units[action.unit].position
             new_position == action.target_position
             MoveEvent(event_type) ==
                 CombatEvent(w.frame_number, event_type, action.unit, None, "", 0, FALSE, new_position)
             Moved(r) ==
                 IF r.w.raised # "" THEN r.w
                 ELSE IF r.ret
                 THEN ExecuteMoves(Append2Log(r.w, MoveEvent("move_executed")), Tail(valid_moves))
                 ELSE ExecuteMoves(CancelPending(Append2Log(r.w, MoveEvent("failed_move")), action.unit),
                                   Tail(valid_moves))
         IN IF old_position = NoPos \/ new_position = NoPos THEN ExecuteMoves(w, Tail(valid_moves))
            ELSE Moved(BoardMoveUnit(w, old_position, new_position))

ExecuteMovesSimultaneously(w, move_actions) ==
    ExecuteMoves(w, SelectSeq(move_actions, LAMBDA a : IsAlive(w.units[a.unit])))

(* A resolve step that executes the due spells before the due attacks: C22 *)
(* tells it from _execute_queued_actions.                                  *)
ExecuteQueuedActionsSpellsFirst(w) ==
    LET actions_to_execute == SelectSeq(w.action_queue, LAMBDA a : a.resolution_frame <= w.frame_number)
        w0 == [w EXCEPT !.action_queue = SelectSeq(@, LAMBDA a : a.resolution_frame > w.frame_number)]
        attack_actions == SelectSeq(actions_to_execute, LAMBDA a : a.action_type = ATTACK)
        move_actions == SelectSeq(actions_to_execute, LAMBDA a : a.action_type = MOVE)
        spell_actions == SelectSeq(actions_to_execute, LAMBDA a : a.action_type = CAST_SPELL)
        Moves(w2) == IF w2.raised # "" THEN w2 ELSE ExecuteMovesSimultaneously(w2, move_actions)
        Attacks(w1) ==
            IF w1.raised # "" THEN w1
            ELSE Moves(ExecuteAttacksSimultaneously(w1, attack_actions,
                           [i \in DOMAIN attack_actions |-> IsAlive(w1.units[attack_actions[i].unit])]))
    IN Attacks(ExecuteSpellsSimultaneously(w0, spell_actions))

ExecuteQueuedActions(w) ==
    LET actions_to_execute == SelectSeq(w.action_queue, LAMBDA a : a.resolution_frame <= w.frame_number)
        w0 == [w EXCEPT !.action_queue = SelectSeq(@, LAMBDA a : a.resolution_frame > w.frame_number)]
        attack_actions == SelectSeq(actions_to_execute, LAMBDA a : a.action_type = ATTACK)
        move_actions == SelectSeq(actions_to_execute, LAMBDA a : a.action_type = MOVE)
        spell_actions == SelectSeq(actions_to_execute, LAMBDA a : a.action_type = CAST_SPELL)
        Moves(w2) == IF w2.raised # "" THEN w2 ELSE ExecuteMovesSimultaneously(w2, move_actions)
        Spells(w1) == IF w1.raised # "" THEN w1 ELSE Moves(ExecuteSpellsSimultaneously(w1, spell_actions))
    IN Spells(ExecuteAttacksSimultaneously(w0, attack_actions,
                  [i \in DOMAIN attack_actions |-> IsAlive(w0.units[attack_actions[i].unit])]))

-----------------------------------------------------------------------------
(* combat.py: CombatEngine._cleanup_dead_units *)

(* A cleanup that leaves the pending actions of a dead unit in the queue:  *)
(* C27 tells it from line 488.                                             *)
RECURSIVE CleanupLoopKeepActions(_, _)
CleanupLoopKeepActions(w, todo) ==
    IF w.raised # "" \/ todo = <<>> THEN w
    ELSE LET u == Head(todo)
             unit == w.units[u]
             Kept(w3) == IF w3.raised # "" THEN w3 ELSE CleanupLoopKeepActions(w3, Tail(todo))
             Removed(w2) ==
                 IF w2.raised = "" /\ unit.planned_position # NoPos
                 THEN Kept(BoardRemoveUnit(w2, unit.planned_position))
                 ELSE Kept(w2)
         IN IF IsAlive(unit) \/ unit.position = NoPos THEN CleanupLoopKeepActions(w, Tail(todo))
            ELSE Removed(BoardRemoveUnit(
                     Append2Log(w, CombatEvent(w.frame_number, "unit_died", None, u, "", 0, FALSE, NoPos)),
                     unit.position))

RECURSIVE CleanupLoop(_, _)
CleanupLoop(w, todo) ==
    IF w.raised # "" \/ todo = <<>> THEN w
    ELSE LET u == Head(todo)
             unit == w.units[u]
             Purged(w3) ==
                 IF w3.raised # "" THEN w3
                 ELSE CleanupLoop([w3 EXCEPT !.action_queue = SelectSeq(@, LAMBDA a : a.unit # u)], Tail(todo))
             Removed(w2) ==
                 IF w2.raised = "" /\ unit.planned_position # NoPos
                 THEN Purged(BoardRemoveUnit(w2, unit.planned_position))
                 ELSE Purged(w2)
         IN IF IsAlive(unit) \/ unit.position = NoPos THEN CleanupLoop(w, Tail(todo))
            ELSE Removed(BoardRemoveUnit(
                     Append2Log(w, CombatEvent(w.frame_number, "unit_died", None, u, "", 0, FALSE, NoPos)),
                     unit.position))

(* The key of the sort of line 492; list.sort is stable *)
SortKey(w, u) ==
    IF w.units[u].position = NoPos THEN Infinity
    ELSE w.units[u].position[1] * BoardH + w.units[u].position[2]

RECURSIVE InsertSorted(_, _, _)
InsertSorted(w, sorted, u) ==
    IF sorted = <<>> THEN <<u>>
    ELSE IF SortKey(w, sorted[Len(sorted)]) <= SortKey(w, u) THEN Append(sorted, u)
    ELSE Append(InsertSorted(w, SubSeq(sorted, 1, Len(sorted) - 1), u), sorted[Len(sorted)])

RECURSIVE SortByPosition(_, _)
SortByPosition(w, seq) ==
    IF seq = <<>> THEN <<>>
    ELSE InsertSorted(w, SortByPosition(w, SubSeq(seq, 1, Len(seq) - 1)), seq[Len(seq)])

(* A frame that ends without the cleanup: C6 tells it from                 *)
(* _cleanup_dead_units.                                                    *)
NoCleanup(w) == w

(* CombatEngine._cleanup_dead_units *)
CleanupDeadUnits(w) ==
    LET Sorted(w1) ==
            IF w1.raised # "" THEN w1
            ELSE [w1 EXCEPT !.all_units = SortByPosition(w1, SelectSeq(@, LAMBDA u : IsAlive(w1.units[u])))]
    IN Sorted(CleanupLoop(w, w.all_units))

-----------------------------------------------------------------------------
(* combat.py: CombatEngine.simulate_combat, one step at a time.  The pc of *)
(* an engine is "new" before the call, "loop" at the head of the while     *)
(* loop, "resolve", "plan" and "cleanup" before the three phases of        *)
(* _execute_delayed_frame, "done" after a return and "raised" after an     *)
(* exception left the call.                                                *)

(* CombatEngine.set_teams *)
SetTeams(w) ==
    [w EXCEPT !.units = [u \in DOMAIN @ |->
        IF u \in SeqToSet(w.teams[2]) THEN [@[u] EXCEPT !.team = 2]
        ELSE IF u \in SeqToSet(w.teams[1]) THEN [@[u] EXCEPT !.team = 1]
        ELSE @[u]]]

(* Lines 100-115 *)
StartCombat(w) ==
    LET w1 == [SetTeams(w) EXCEPT !.log = <<>>, !.action_queue = <<>>, !.frame_number = 0, !.pc = "loop"]
    IN IF w.rng.seed # NoSeed
       THEN Append2Log(w1, CombatEvent(0, "start_event", None, None, "", 0, FALSE, NoPos))
       ELSE w1

(* Line 121 *)
LivingUnits(w) == SelectSeq(w.teams[1] \o w.teams[2], LAMBDA u : IsAlive(w.units[u]))

TeamAlive(w, team) == \E i \in DOMAIN LivingUnits(w) : w.units[LivingUnits(w)[i]].team = team

(* The loop runs another frame: lines 118-136 and 154 *)
Continues(w) == w.frame_number < max_frames /\ LivingUnits(w) # <<>>

(* Lines 139-147 *)
TeamHealth(w, team) ==
    SumSeq([i \in DOMAIN w.teams[team] |->
              IF IsAlive(w.units[w.teams[team][i]]) THEN w.units[w.teams[team][i]].current_health ELSE 0])

(* A health comparison that gives a tie to team 1: C2 tells it from the    *)
(* comparison of lines 139-147.                                            *)
TiesToTeam1(w) == IF TeamHealth(w, 1) >= TeamHealth(w, 2) THEN 1 ELSE 2

(* Lines 142-147 *)
TimeoutResult(w) ==
    IF TeamHealth(w, 1) > TeamHealth(w, 2) THEN 1
    ELSE IF TeamHealth(w, 2) > TeamHealth(w, 1) THEN 2
    ELSE 0

(* A loop head that looks for a team without living units before it looks  *)
(* whether any unit lives: C37 tells it from lines 121-136.                *)
LoopHeadWinnerFirst(w) ==
    IF w.frame_number >= max_frames THEN [w EXCEPT !.pc = "done", !.result = TimeoutResult(w)]
    ELSE IF ~TeamAlive(w, 1) THEN [w EXCEPT !.pc = "done", !.result = 2]
    ELSE IF ~TeamAlive(w, 2) THEN [w EXCEPT !.pc = "done", !.result = 1]
    ELSE [w EXCEPT !.all_units = LivingUnits(w), !.frame_number = @ + 1, !.pc = "resolve"]

LoopHead(w) ==
    IF ~Continues(w) THEN [w EXCEPT !.pc = "done", !.result = TimeoutResult(w)]
    ELSE IF ~TeamAlive(w, 1) THEN [w EXCEPT !.pc = "done", !.result = 2]
    ELSE IF ~TeamAlive(w, 2) THEN [w EXCEPT !.pc = "done", !.result = 1]
    ELSE [w EXCEPT !.all_units = LivingUnits(w), !.frame_number = @ + 1, !.pc = "resolve"]

(* An exception leaves simulate_combat *)
Escapes(w, next_pc) == [w EXCEPT !.pc = IF w.raised # "" THEN "raised" ELSE next_pc]

EngineStep(w) ==
    CASE w.pc = "new" -> StartCombat(w)
      [] w.pc = "loop" -> LoopHead(w)
      [] w.pc = "resolve" -> Escapes(ExecuteQueuedActions(w), "plan")
      [] w.pc = "plan" -> Escapes(PlanActions(w), "cleanup")
      [] w.pc = "cleanup" -> Escapes(CleanupDeadUnits(w), "loop")
      [] OTHER -> w

-----------------------------------------------------------------------------
(* The state of the process as the engine of this battle and the engine of *)
(* the second battle see it: the units, the spell objects and the combat   *)
(* log are objects of the process, the rest belongs to one engine.         *)

World ==
    [pc |-> pc, result |-> result, frame_number |-> frame_number, units |-> units,
     cells |-> cells, action_queue |-> action_queue, log |-> combat_log,
     all_units |-> all_units, spells |-> spells, rng |-> rng, teams |-> teams,
     raised |-> raised]

OtherWorld ==
    [pc |-> other.pc, result |-> other.result, frame_number |-> other.frame_number,
     units |-> units, cells |-> other.cells, action_queue |-> other.action_queue,
     log |-> combat_log, all_units |-> other.all_units, spells |-> spells,
     rng |-> other.rng, teams |-> other.teams, raised |-> other.raised]

EngineOf(w) ==
    [pc |-> w.pc, result |-> w.result, frame_number |-> w.frame_number,
     cells |-> w.cells, action_queue |-> w.action_queue, all_units |-> w.all_units,
     rng |-> w.rng, teams |-> w.teams, raised |-> w.raised]

(* This battle's engine takes the step that leads to w *)
Becomes(w) ==
    /\ pc' = w.pc /\ result' = w.result /\ frame_number' = w.frame_number
    /\ units' = w.units /\ cells' = w.cells /\ action_queue' = w.action_queue
    /\ combat_log' = w.log /\ all_units' = w.all_units /\ spells' = w.spells
    /\ rng' = w.rng /\ teams' = w.teams /\ raised' = w.raised

(* The second battle's engine takes the step that leads to w *)
OtherBecomes(w) ==
    /\ other' = EngineOf(w)
    /\ units' = w.units /\ combat_log' = w.log /\ spells' = w.spells
    /\ UNCHANGED <<pc, result, frame_number, cells, action_queue, all_units, rng, teams, raised>>

-----------------------------------------------------------------------------
(* Battles: the units a caller creates and places before simulate_combat.  *)
(* A fighter is created with Unit(unit_type, rarity, team), given health   *)
(* and mana, and placed with Board.place_unit (position NoPos: not placed).*)

Fighter(unit_type, team, position, health, mana) ==
    [unit_type |-> unit_type, team |-> team, position |-> position, health |-> health, mana |-> mana]

(* The units of a battle whose ids follow base *)
UnitsOf(fighters, base) ==
    [u \in base + 1 .. base + Len(fighters) |->
        [NewUnit(fighters[u - base].unit_type, fighters[u - base].team, 1,
                 Min(fighters[u - base].health * HealthDen, GetMaxHealth([unit_type |-> fighters[u - base].unit_type, level |-> 1])),
                 fighters[u - base].mana * ManaDen)
         EXCEPT !.position = fighters[u - base].position]]

CellsOf(fighters, base) ==
    [p \in Pos |->
        IF \E i \in DOMAIN fighters : fighters[i].position = p
        THEN [unit |-> base + (CHOOSE i \in DOMAIN fighters : fighters[i].position = p), cell_type |-> UNIT]
        ELSE EmptyCell]

TeamOf(fighters, base, team) ==
    LET ids == [i \in DOMAIN fighters |-> base + i]
    IN SelectSeq(ids, LAMBDA u : fighters[u - base].team = team)

NewEngine(fighters, base, seed, entropy) ==
    [pc |-> "new", result |-> 0 - 1, frame_number |-> 0, cells |-> CellsOf(fighters, base),
     action_queue |-> <<>>, all_units |-> <<>>,
     rng |-> [seed |-> seed, entropy |-> entropy, pos |-> 0],
     teams |-> <<TeamOf(fighters, base, 1), TeamOf(fighters, base, 2)>>, raised |-> ""]

NoEngine == [NewEngine(<<>>, 0, NoSeed, 0) EXCEPT !.pc = "none"]

(* The spell objects: 0 is the FireballSpell() that is the default of      *)
(* UnitStats.spell; every other spell object belongs to the unit u.        *)
NewSpells(us) ==
    [i \in {0} \cup DOMAIN us |->
        [target |-> None,
         range |-> IF i = 0 THEN SpellClass("Fireball").range ELSE Spell(us[i]).range]]

(* The battles the model runs.  Health is kept low so that a battle takes  *)
(* few hits, and is chosen so that no unit is left with a health that is   *)
(* zero in exact arithmetic and a rounding residue in floats.              *)
DuelHealth == 151
DuelPositions == {<<1, 0>>, <<2, 2>>, <<BoardW - 1, BoardH - 1>>}
ManaChoices(unit_type) == {0, DefaultStats(unit_type).max_mana - 5, DefaultStats(unit_type).max_mana}

(* One unit against one unit *)
Duels ==
    { <<Fighter(t1, 1, <<0, 0>>, DuelHealth, m1), Fighter(t2, 2, p2, DuelHealth, 0)>> :
        <<t1, m1>> \in UNION {{t} \X ManaChoices(t) : t \in UnitTypes}, t2 \in UnitTypes, p2 \in DuelPositions }

(* Teams of up to three units, NumUnits units at most on the board *)
Roster(team) ==
    IF team = 1
    THEN <<Fighter("warrior", 1, <<0, 0>>, DuelHealth, 0),
           Fighter("mage", 1, <<0, 1>>, DuelHealth, 50),
           Fighter("archer", 1, <<0, 2>>, DuelHealth, 0)>>
    ELSE <<Fighter("tank", 2, <<BoardW - 1, BoardH - 1>>, DuelHealth, 95),
           Fighter("assassin", 2, <<BoardW - 1, 0>>, DuelHealth, 0),
           Fighter("support", 2, <<BoardW - 1, 1>>, DuelHealth, 0)>>

Skirmishes ==
    { SubSeq(Roster(1), 1, n[1]) \o SubSeq(Roster(2), 1, n[2]) :
        n \in {m \in (0 .. 3) \X (0 .. 3) : m[1] + m[2] <= NumUnits} }

(* Units that were never placed wait until the frame cap *)
IdleHealths == {50, 100}
Idlers ==
    { <<Fighter("warrior", 1, NoPos, h1, 0), Fighter("mage", 2, NoPos, h2, 0)>> : h1 \in IdleHealths, h2 \in IdleHealths }

(* Two tanks at full health outlast the frame cap *)
Sieges ==
    { <<Fighter("tank", 1, <<0, 0>>, 1500, 0), Fighter("tank", 2, <<1, 0>>, h, 0)>> : h \in {1400, 1500} }

(* A unit that outlives a Fireball walks while its enemy attacks and casts: *)
(* a move resolves in the frame in which a spell or an attack resolves.    *)
CrossingHealth == 600
Crossings ==
    { <<Fighter("mage", 1, <<0, 0>>, DuelHealth, 45), Fighter("warrior", 2, <<BoardW - 1, BoardH - 1>>, CrossingHealth, 0)>>,
      <<Fighter("warrior", 1, <<0, 0>>, DuelHealth, 100), Fighter("archer", 2, <<BoardW - 1, BoardH - 1>>, CrossingHealth, 0)>> }

(* Three units with a full mana pool cast in frame 1: their spells resolve *)
(* in one frame.                                                           *)
Volleys ==
    { <<Fighter("mage", 1, <<0, 0>>, DuelHealth, 50), Fighter("warrior", 1, <<0, 1>>, DuelHealth, 100),
        Fighter("support", 2, <<BoardW - 1, 1>>, DuelHealth, 80)>>,
      <<Fighter("warrior", 1, <<0, 1>>, DuelHealth, 100), Fighter("mage", 1, <<0, 0>>, DuelHealth, 50),
        Fighter("support", 2, <<BoardW - 1, 1>>, DuelHealth, 80)>> }

(* A warrior in a corner with an enemy on each cell next to it: the third  *)
(* enemy finds no cell from which the warrior is in range.                 *)
Cornerings ==
    { <<Fighter("warrior", 1, <<1, 0>>, DuelHealth, 0), Fighter("warrior", 1, <<0, 1>>, DuelHealth, 0),
        Fighter(t, 1, <<BoardW - 1, BoardH - 1>>, DuelHealth, 0), Fighter("warrior", 2, <<0, 0>>, DuelHealth, 0)>> :
        t \in {"warrior", "tank"} }

(* An assassin blinks away from the tank that is attacking it: the tank's  *)
(* attack resolves when the assassin is on the far side of the board.      *)
Pursuits ==
    { <<Fighter("assassin", 1, <<0, BoardH - 1>>, DuelHealth, 0),
        Fighter("assassin", 2, <<BoardW - 2, BoardH - 1>>, CrossingHealth, 50),
        Fighter("tank", 1, <<BoardW - 1, BoardH - 1>>, DuelHealth, 100)>> }

(* The cornered warrior again, with the third enemy on the cell that      *)
(* touches its corner: at distance 1.41, and not among the cells within 1. *)
Flankings ==
    { <<Fighter("warrior", 1, <<1, 0>>, DuelHealth, 0), Fighter("warrior", 1, <<0, 1>>, DuelHealth, 0),
        Fighter("warrior", 1, <<1, 1>>, DuelHealth, 0), Fighter("warrior", 2, <<0, 0>>, DuelHealth, 0)>> }

Battles ==
    [fighters : Duels \cup Skirmishes \cup Crossings \cup Volleys \cup Cornerings \cup Pursuits \cup Flankings, seed : Seeds \cup {NoSeed}, entropy : {0}]
        \cup [fighters : Idlers \cup Sieges, seed : {0, NoSeed}, entropy : {0}]

(* An engine e is this battle's engine *)
EngineIs(e) ==
    /\ pc = e.pc /\ result = e.result /\ frame_number = e.frame_number
    /\ cells = e.cells /\ action_queue = e.action_queue /\ all_units = e.all_units
    /\ rng = e.rng /\ teams = e.teams /\ raised = e.raised

Init ==
    \E b \in Battles :
        /\ units = UnitsOf(b.fighters, 0)
        /\ spells = NewSpells(UnitsOf(b.fighters, 0))
        /\ combat_log = <<>>
        /\ EngineIs(NewEngine(b.fighters, 0, b.seed, b.entropy))
        /\ other = NoEngine
        /\ calls = 0
        /\ last = [op |-> "none"]

(* simulate_combat is called: lines 100-115 *)
SimulateCombat ==
    /\ pc = "new"
    /\ Becomes(StartCombat(World))
    /\ UNCHANGED <<other, calls, last>>

(* The loop condition holds and both teams have a living unit: line 136 *)
BeginFrame ==
    /\ pc = "loop" /\ Continues(World) /\ TeamAlive(World, 1) /\ TeamAlive(World, 2)
    /\ Becomes(LoopHead(World))
    /\ UNCHANGED <<other, calls, last>>

(* A team has no living unit: lines 131-134 *)
ReturnWinner ==
    /\ pc = "loop" /\ Continues(World) /\ ~(TeamAlive(World, 1) /\ TeamAlive(World, 2))
    /\ Becomes(LoopHead(World))
    /\ UNCHANGED <<other, calls, last>>

(* The loop ends: lines 139-147 *)
ReturnTimeout ==
    /\ pc = "loop" /\ ~Continues(World)
    /\ Becomes(LoopHead(World))
    /\ UNCHANGED <<other, calls, last>>

QueuedActionsPhase ==
    /\ pc = "resolve"
    /\ Becomes(Escapes(ExecuteQueuedActions(World), "plan"))
    /\ UNCHANGED <<other, calls, last>>

PlanPhase ==
    /\ pc = "plan"
    /\ Becomes(Escapes(PlanActions(World), "cleanup"))
    /\ UNCHANGED <<other, calls, last>>

CleanupPhase ==
    /\ pc = "cleanup"
    /\ Becomes(Escapes(CleanupDeadUnits(World), "loop"))
    /\ UNCHANGED <<other, calls, last>>

Next ==
    \/ SimulateCombat
    \/ BeginFrame
    \/ ReturnWinner
    \/ ReturnTimeout
    \/ QueuedActionsPhase
    \/ PlanPhase
    \/ CleanupPhase

Spec == Init /\ [][Next]_vars

-----------------------------------------------------------------------------
(* Properties of a battle *)

Terminal == pc \in {"done", "raised"}

(* The living units of a team list, and the health they sum to *)
LivingOf(team) == {u \in SeqToSet(teams[team]) : units[u].current_health > 0}

RECURSIVE HealthSum(_)
HealthSum(S) ==
    IF S = {} THEN 0
    ELSE LET u == CHOOSE u \in S : TRUE
         IN units[u].current_health + HealthSum(S \ {u})

(* C1: simulate_combat always terminates with a winner: it never ends by   *)
(* an exception, what it returns is 0, 1 or 2, and it executes no more     *)
(* than max_frames frames, the frame counter growing by one per frame.     *)
C1_ReturnsWinner ==
    /\ pc # "raised"
    /\ frame_number <= max_frames
    /\ (pc = "done" => result \in {0, 1, 2})

(* C2: at the head of the loop, before the cap, simulate_combat returns 2  *)
(* when team 1 has no living unit and team 2 has one, and 1 in the mirror  *)
(* case, and goes on when both teams have one; at the cap it returns the   *)
(* team whose living units have the strictly greater health sum, and 0     *)
(* exactly when the sums are equal.                                        *)
C2_WinDetermination ==
    [][pc = "loop" =>
         /\ (frame_number < max_frames /\ LivingOf(1) = {} /\ LivingOf(2) # {})
                => (pc' = "done" /\ result' = 2)
         /\ (frame_number < max_frames /\ LivingOf(2) = {} /\ LivingOf(1) # {})
                => (pc' = "done" /\ result' = 1)
         /\ (frame_number < max_frames /\ LivingOf(1) # {} /\ LivingOf(2) # {})
                => (pc' = "resolve" /\ frame_number' = frame_number + 1)
         /\ frame_number >= max_frames
                => /\ pc' = "done"
                   /\ (result' = 1) = (HealthSum(LivingOf(1)) > HealthSum(LivingOf(2)))
                   /\ (result' = 2) = (HealthSum(LivingOf(2)) > HealthSum(LivingOf(1)))
                   /\ (result' = 0) = (HealthSum(LivingOf(1)) = HealthSum(LivingOf(2)))]_vars

(* A battle of placed units has reached the cap and the team with less     *)
(* health has lost.                                                        *)
C2_Witness ==
    /\ pc = "done" /\ frame_number = max_frames /\ result = 1
    /\ \A u \in DOMAIN units : units[u].position # NoPos
    /\ HealthSum(LivingOf(2)) > 0

(* C6: at the end of every frame a unit whose health is 0 holds no cell,   *)
(* occupied or reserved, has no position, has no action in the pending     *)
(* queue and is not in the list of active units.                           *)
C6_CleanupPostcondition ==
    (pc = "loop" /\ frame_number > 0) =>
        \A u \in DOMAIN units :
            units[u].current_health <= 0 =>
                /\ \A p \in Pos : cells[p].unit # u
                /\ units[u].position = NoPos
                /\ \A i \in DOMAIN action_queue : action_queue[i].unit # u
                /\ u \notin SeqToSet(all_units)

(* A frame has ended in which a unit died that had reserved a cell *)
C6_Witness ==
    /\ pc = "loop" /\ frame_number > 0
    /\ \E u \in DOMAIN units :
          units[u].current_health <= 0 /\ units[u].planned_position # NoPos

(* C7: the events of the log carry the number of the frame in which their  *)
(* effect was applied, so frame numbers never decrease along the log.      *)
C7_LogOrderedByFrame ==
    \A i \in 1 .. Len(combat_log) - 1 :
        combat_log[i].frame_number <= combat_log[i + 1].frame_number

(* C10 as stated: every unit's mana lies between 0 and its mana pool *)
C10_ManaInPool ==
    \A u \in DOMAIN units :
        0 <= units[u].current_mana /\ units[u].current_mana <= MaxMana(units[u])

(* C10: every unit's mana is at least 0 and exceeds its mana pool by no    *)
(* more than the mana of one basic attack, which is added without a cap.   *)
C10_ManaBounded ==
    \A u \in DOMAIN units :
        /\ 0 <= units[u].current_mana
        /\ units[u].current_mana <= MaxMana(units[u]) + basic_attack_mana * ManaDen

(* A basic attack has taken a unit's mana above its pool *)
C10_Witness ==
    \E u \in DOMAIN units : units[u].current_mana > MaxMana(units[u])

(* A battle of one unit of range 4 against one unit of range 1 *)
KitingDuel ==
    /\ DOMAIN units = 1 .. 2
    /\ units[1].team # units[2].team
    /\ {Stats(units[1]).range, Stats(units[2]).range} = {1, 4}

RangedUnit == CHOOSE u \in 1 .. 2 : Stats(units[u]).range = 4
MeleeUnit == CHOOSE u \in 1 .. 2 : Stats(units[u]).range = 1

(* The melee unit stands within its reach, 1.66, of the ranged unit *)
MeleeInReach ==
    /\ units[MeleeUnit].position # NoPos /\ units[RangedUnit].position # NoPos
    /\ 10000 * L2Squared(units[MeleeUnit].position, units[RangedUnit].position) <= 166 * 166

(* Every attack planned in this frame has its target within the weapon     *)
(* range of the attacker plus 0.66                                         *)
AttacksPlannedInRange ==
    pc = "cleanup" =>
        \A i \in DOMAIN action_queue :
            (action_queue[i].action_type = ATTACK /\ action_queue[i].planned_frame = frame_number) =>
                LET attacker == units[action_queue[i].unit]
                    reach == 100 * Stats(attacker).range + 66
                IN /\ action_queue[i].target # None
                   /\ attacker.position # NoPos /\ units[action_queue[i].target].position # NoPos
                   /\ 10000 * L2Squared(attacker.position, units[action_queue[i].target].position) <= reach * reach

(* The events this step has appended to the log *)
NewEvents == {combat_log'[i] : i \in (Len(combat_log) + 1) .. Len(combat_log')}

(* C17 as it is stated: in a duel of a range-4 unit and a range-1 unit the *)
(* ranged unit loses no health in a step unless the melee unit stands      *)
(* within its melee reach of it, and an attack is planned only on a target *)
(* within the weapon range plus 0.66.                                      *)
C17_NoDamageBeforeReach ==
    [][/\ (KitingDuel /\ units'[RangedUnit].current_health < units[RangedUnit].current_health)
            => MeleeInReach'
       /\ AttacksPlannedInRange']_vars

(* C17: in a duel of a range-4 unit and a range-1 unit the ranged unit     *)
(* takes no damage of a basic attack unless the melee unit stands within   *)
(* its melee reach of it, and an attack is planned only on a target within *)
(* the weapon range plus 0.66.                                             *)
C17_NoAttackDamageBeforeReach ==
    [][/\ (KitingDuel /\ \E e \in NewEvents : /\ e.event_type = "damage_dealt"
                                                /\ e.target = RangedUnit
                                                /\ e.spell_name = "BasicAttack")
            => MeleeInReach'
       /\ AttacksPlannedInRange']_vars

(* The melee unit has moved three times or more and then hit the ranged    *)
(* unit with a basic attack.                                               *)
C17_Witness ==
    /\ KitingDuel
    /\ \E i \in DOMAIN combat_log :
          /\ combat_log[i].event_type = "damage_dealt"
          /\ combat_log[i].target = RangedUnit /\ combat_log[i].source = MeleeUnit
          /\ combat_log[i].spell_name = "BasicAttack"
          /\ Cardinality({j \in 1 .. i : /\ combat_log[j].event_type = "move_executed"
                                          /\ combat_log[j].source = MeleeUnit}) >= 3

(* The sum of the damage of the DAMAGE_DEALT events against unit u among   *)
(* the events log[i], log[i + 1], ...                                      *)
RECURSIVE DamageLoggedFrom(_, _, _)
DamageLoggedFrom(log, i, u) ==
    IF i > Len(log) THEN 0
    ELSE (IF log[i].event_type = "damage_dealt" /\ log[i].target = u THEN log[i].damage ELSE 0)
             + DamageLoggedFrom(log, i + 1, u)

HealedIn(log, i, u) ==
    \E j \in i .. Len(log) : log[j].event_type = "healing_done" /\ log[j].target = u

(* C18: a step of a battle lowers the health of every unit that it does    *)
(* not heal by exactly the sum of the damage of the DAMAGE_DEALT events it *)
(* logs against that unit, each of them between 0 and the health the unit  *)
(* had; with the empty log of a new battle this gives, for a unit that is  *)
(* never healed, current_health = initial health - logged damage.          *)
C18_DamageAccounting ==
    [][\A u \in DOMAIN units :
          /\ u \in DOMAIN units'
          /\ ~HealedIn(combat_log', Len(combat_log) + 1, u) =>
                units[u].current_health - units'[u].current_health
                    = DamageLoggedFrom(combat_log', Len(combat_log) + 1, u)
          /\ \A e \in NewEvents :
                (e.event_type = "damage_dealt" /\ e.target = u) =>
                    (e.damage >= 0 /\ e.damage <= units[u].current_health)]_vars

(* A unit that was never healed has been hit more than once and the last   *)
(* hit was capped by its remaining health.                                 *)
C18_Witness ==
    \E u \in DOMAIN units :
        /\ units[u].current_health = 0
        /\ ~HealedIn(combat_log, 1, u)
        /\ Cardinality({i \in DOMAIN combat_log : /\ combat_log[i].event_type = "damage_dealt"
                                                  /\ combat_log[i].target = u}) >= 2
        /\ DamageLoggedFrom(combat_log, 1, u) > 0

(* C19: while a CastSpell waits in the queue, the spell object of its      *)
(* caster still holds the target that the caster's prepare selected when   *)
(* the cast was planned, so the cast resolves against that target whatever *)
(* other units plan in between.                                            *)
C19_SpellStatePerUnit ==
    \A i \in DOMAIN action_queue :
        action_queue[i].action_type = CAST_SPELL =>
            spells[SpellInstance(action_queue[i].unit, units[action_queue[i].unit].unit_type)].target
                = action_queue[i].target

(* C21: in every state of a battle Board.get_units holds every unit that   *)
(* stands on the board exactly once, and nothing else, also while the unit *)
(* holds a reservation for the cell it moves to.                           *)
C21_GetUnitsOnce ==
    LET got == BoardGetUnits([cells |-> cells])
    IN /\ \A u \in DOMAIN units :
             units[u].position # NoPos => Cardinality({i \in DOMAIN got : got[i] = u}) = 1
       /\ \A i \in DOMAIN got : units[got[i]].position # NoPos

(* The part of the resolve step that logs event e: 1 the attacks, 2 the    *)
(* spells, 3 the moves, 0 for an event no resolve step logs                *)
ResolveRank(e) ==
    IF e.event_type = "failed_attack" \/ (e.event_type = "damage_dealt" /\ e.spell_name = "BasicAttack") THEN 1
    ELSE IF e.event_type \in {"damage_dealt", "healing_done", "spell_executed"} THEN 2
    ELSE IF e.event_type \in {"move_executed", "failed_move"} THEN 3
    ELSE 0

NewIndexes == (Len(combat_log) + 1) .. Len(combat_log')

(* C22: a frame starts with the frame counter raised by one and then runs  *)
(* the resolve step, the planning step (with the resolution of the move    *)
(* conflicts at its end) and the cleanup, each once and in this order; the *)
(* resolve step logs the events of the due attacks before those of the due *)
(* spells and those before the events of the due moves, and every step     *)
(* logs events of its own kind only.                                       *)
C22_PhaseOrder ==
    [][/\ pc = "loop" => /\ pc' \in {"resolve", "done"}
                          /\ pc' = "resolve" => frame_number' = frame_number + 1
                          /\ combat_log' = combat_log
       /\ pc = "resolve" => /\ pc' \in {"plan", "raised"}
                            /\ frame_number' = frame_number
                            /\ \A i \in NewIndexes : ResolveRank(combat_log'[i]) >= 1
                            /\ \A i \in NewIndexes, j \in NewIndexes :
                                  i < j => ResolveRank(combat_log'[i]) <= ResolveRank(combat_log'[j])
       /\ pc = "plan" => /\ pc' \in {"cleanup", "raised"}
                         /\ frame_number' = frame_number
                         /\ \A i \in NewIndexes : combat_log'[i].event_type \in {"action_planned", "conflict_resolved"}
                         /\ \A i \in NewIndexes, j \in NewIndexes :
                               (i < j /\ combat_log'[i].event_type = "conflict_resolved")
                                   => combat_log'[j].event_type = "conflict_resolved"
       /\ pc = "cleanup" => /\ pc' \in {"loop", "raised"}
                            /\ frame_number' = frame_number
                            /\ \A i \in NewIndexes : combat_log'[i].event_type = "unit_died"]_vars

(* The events the last step may have logged: the tail of the log *)
LastEvents == {i \in DOMAIN combat_log : i > Len(combat_log) - 2 * NumUnits}

(* A resolve step has applied a spell and then a move of the same frame *)
SpellThenMove ==
    \E i \in LastEvents, j \in LastEvents :
        /\ i < j
        /\ combat_log[i].frame_number = frame_number /\ combat_log[j].frame_number = frame_number
        /\ combat_log[i].event_type = "spell_executed" /\ combat_log[j].event_type = "move_executed"

(* A resolve step has applied an attack and then a move of the same frame *)
AttackThenMove ==
    \E i \in LastEvents, j \in LastEvents :
        /\ i < j
        /\ combat_log[i].frame_number = frame_number /\ combat_log[j].frame_number = frame_number
        /\ ResolveRank(combat_log[i]) = 1 /\ combat_log[j].event_type = "move_executed"

(* A resolve step has applied an attack and then a spell of the same frame *)
AttackThenSpell ==
    \E i \in LastEvents, j \in LastEvents :
        /\ i < j
        /\ combat_log[i].frame_number = frame_number /\ combat_log[j].frame_number = frame_number
        /\ ResolveRank(combat_log[i]) = 1 /\ combat_log[j].event_type = "spell_executed"

C22_Witness == pc = "plan" /\ SpellThenMove

(* The actions of kind action_type that the resolve step of this frame     *)
(* takes from the queue                                                    *)
DueActions(action_type) ==
    {i \in DOMAIN action_queue : /\ action_queue[i].resolution_frame <= frame_number
                                 /\ action_queue[i].action_type = action_type}

(* C23: in a resolve step every due attack of a unit that is alive when    *)
(* the step begins is applied: the step logs its damage, which is positive,*)
(* against its target, also when an earlier attack of the step has brought *)
(* the attacker to health 0; it fails only if its target was dead before   *)
(* it was processed.                                                       *)
C23_SimultaneousAttacks ==
    [][pc = "resolve" =>
          \A a \in DueActions(ATTACK) :
              units[action_queue[a].unit].current_health > 0 =>
                  \E i \in NewIndexes :
                      /\ combat_log'[i].source = action_queue[a].unit
                      /\ combat_log'[i].target = action_queue[a].target
                      /\ \/ /\ combat_log'[i].event_type = "damage_dealt"
                            /\ combat_log'[i].spell_name = "BasicAttack"
                            /\ combat_log'[i].damage > 0
                         \/ /\ combat_log'[i].event_type = "failed_attack"
                            /\ \/ units[action_queue[a].target].current_health = 0
                               \/ \E j \in NewIndexes :
                                     /\ j < i /\ combat_log'[j].event_type = "damage_dealt"
                                     /\ combat_log'[j].target = action_queue[a].target
                            /\ units'[action_queue[a].target].current_health = 0]_vars

(* Two units have hit each other in the resolve step of this frame and     *)
(* both are dead.                                                          *)
C23_Witness ==
    /\ pc = "plan"
    /\ \E i \in LastEvents, j \in LastEvents :
          /\ i < j
          /\ combat_log[i].frame_number = frame_number /\ combat_log[j].frame_number = frame_number
          /\ combat_log[i].event_type = "damage_dealt" /\ combat_log[i].spell_name = "BasicAttack"
          /\ combat_log[j].event_type = "damage_dealt" /\ combat_log[j].spell_name = "BasicAttack"
          /\ combat_log[i].source = combat_log[j].target /\ combat_log[i].target = combat_log[j].source
          /\ units[combat_log[i].source].current_health = 0
          /\ units[combat_log[i].target].current_health = 0

(* C24: in a resolve step every due spell of a caster that is alive when   *)
(* the spells begin (alive before the step and not hit by an attack of the *)
(* step) is executed, provided its target outlives the step: an earlier    *)
(* spell of the step that kills the caster does not stop it.               *)
C24_SimultaneousSpells ==
    [][pc = "resolve" =>
          \A a \in DueActions(CAST_SPELL) :
              (/\ units[action_queue[a].unit].current_health > 0
               /\ ~\E i \in NewIndexes : /\ ResolveRank(combat_log'[i]) = 1
                                         /\ combat_log'[i].target = action_queue[a].unit
               /\ action_queue[a].target # None
               /\ units'[action_queue[a].target].current_health > 0)
                  => \E i \in NewIndexes :
                        /\ combat_log'[i].event_type = "spell_executed"
                        /\ combat_log'[i].source = action_queue[a].unit]_vars

(* The queued actions that were planned in this frame as a move to cell p *)
Claimants(p) ==
    {i \in DOMAIN action_queue : /\ action_queue[i].planned_frame = frame_number
                                 /\ action_queue[i].target_position = p
                                 /\ action_queue[i].action_type \in {MOVE, WAIT}}

Reservations(u) == {q \in Pos : cells[q].cell_type = PLANNED /\ cells[q].unit = u}

PlannedAt(u) ==
    IF \E i \in LastEvents : /\ combat_log[i].event_type = "action_planned"
                             /\ combat_log[i].frame_number = frame_number /\ combat_log[i].source = u
    THEN CHOOSE i \in LastEvents : /\ combat_log[i].event_type = "action_planned"
                                  /\ combat_log[i].frame_number = frame_number /\ combat_log[i].source = u
    ELSE 0

PendingMoves(u) ==
    {i \in DOMAIN action_queue : action_queue[i].unit = u /\ action_queue[i].action_type = MOVE}

(* C26: at the end of every frame each living placed unit occupies exactly *)
(* the cell at its position and no other; each reserved cell holds a       *)
(* living unit that stands on another cell and has exactly one pending     *)
(* Move, to that cell, which is its planned_position; every pending Move   *)
(* has its target cell reserved for its unit.                              *)
C26_BoardQueueConsistent ==
    (pc = "loop" /\ frame_number >= 1) =>
        /\ \A u \in DOMAIN units :
              (units[u].current_health > 0 /\ units[u].position # NoPos) =>
                  {q \in Pos : cells[q].cell_type = UNIT /\ cells[q].unit = u} = {units[u].position}
        /\ \A q \in Pos :
              cells[q].cell_type = UNIT => (cells[q].unit # None /\ units[cells[q].unit].position = q)
        /\ \A q \in Pos :
              cells[q].cell_type = PLANNED =>
                  /\ cells[q].unit # None
                  /\ units[cells[q].unit].current_health > 0
                  /\ units[cells[q].unit].position \notin {NoPos, q}
                  /\ units[cells[q].unit].planned_position = q
                  /\ Cardinality(PendingMoves(cells[q].unit)) = 1
                  /\ \A i \in PendingMoves(cells[q].unit) : action_queue[i].target_position = q
        /\ \A i \in DOMAIN action_queue :
              action_queue[i].action_type = MOVE =>
                  /\ action_queue[i].target_position # NoPos
                  /\ cells[action_queue[i].target_position]
                        = [unit |-> action_queue[i].unit, cell_type |-> PLANNED]

(* A frame has ended with a unit in transit: it stands on one cell and     *)
(* holds the reservation of the cell its pending Move leads to.            *)
C26_Witness ==
    /\ pc = "loop" /\ frame_number >= 1
    /\ \E q \in Pos : /\ cells[q].cell_type = PLANNED
                       /\ cells[units[cells[q].unit].position] = [unit |-> cells[q].unit, cell_type |-> UNIT]
    /\ \E u \in DOMAIN units : units[u].current_health = 0

(* The units that have an action in queue q *)
Busy(q) == {q[i].unit : i \in DOMAIN q}

(* Every action of queue q that satisfies Keep is an action of the queue   *)
(* after the step, in the same order                                       *)
StaysPending(dead_exempt) ==
    \A i \in DOMAIN action_queue :
        (/\ ~(pc = "resolve" /\ action_queue[i].resolution_frame <= frame_number)
         /\ ~(dead_exempt /\ pc = "cleanup" /\ units[action_queue[i].unit].current_health = 0))
            => \E j \in DOMAIN action_queue' : action_queue'[j] = action_queue[i]

(* What C27 says of one step, with or without the exemption of the actions *)
(* of dead units in the cleanup                                            *)
LifecycleStep(dead_exempt) ==
    /\ \A i \in DOMAIN action_queue', j \in DOMAIN action_queue' :
          action_queue'[i].unit = action_queue'[j].unit => i = j
    /\ pc # "plan" => Busy(action_queue') \subseteq Busy(action_queue)
    /\ pc = "plan" =>
          \A j \in DOMAIN action_queue' :
              action_queue'[j].unit \notin Busy(action_queue) =>
                  /\ units[action_queue'[j].unit].current_health > 0
                  /\ action_queue'[j].planned_frame = frame_number
                  /\ action_queue'[j].resolution_frame > frame_number
    /\ StaysPending(dead_exempt)
    /\ pc = "resolve" =>
          /\ action_queue' = SelectSeq(action_queue, LAMBDA a : a.resolution_frame > frame_number)
          /\ \A j \in DOMAIN action_queue' : action_queue'[j].resolution_frame > frame_number'
    /\ (dead_exempt /\ pc = "cleanup") =>
          \A i \in DOMAIN action_queue :
              units[action_queue[i].unit].current_health = 0
                  => action_queue[i].unit \notin Busy(action_queue')

(* C27 as it is stated: a unit has at most one pending action; an action   *)
(* is created in the planning step only, for a living unit without a       *)
(* pending action; it stays in the queue in every step until the resolve   *)
(* step of the first frame at or after its resolution frame removes it,    *)
(* after which no pending action is due.                                   *)
C27_ActionLifecycle == [][LifecycleStep(FALSE)]_vars

(* C27, with the cleanup: a unit has at most one pending action; an action *)
(* is created in the planning step only, for a living unit without a       *)
(* pending action; it stays in the queue until the resolve step of the     *)
(* first frame at or after its resolution frame removes it, or until the   *)
(* cleanup of the frame in which its unit died removes it; after a resolve *)
(* step no pending action is due.                                          *)
C27_ActionLifecycleOfLiving == [][LifecycleStep(TRUE)]_vars

(* The action of a living unit was resolved in this frame and the unit has *)
(* a new action, planned in the same frame.                                *)
C27_Witness ==
    /\ pc = "cleanup" /\ frame_number > 1
    /\ \E i \in DOMAIN action_queue, k \in LastEvents :
          /\ action_queue[i].planned_frame = frame_number
          /\ combat_log[k].frame_number = frame_number
          /\ ResolveRank(combat_log[k]) \in {1, 3}
          /\ combat_log[k].source = action_queue[i].unit

(* C28: a planning step raises nothing, whatever the prepare of a spell    *)
(* answers, and it leaves the mana of every unit unchanged that it has not *)
(* given a CastSpell.                                                      *)
C28_FailedPrepareIsNoError ==
    [][pc = "plan" =>
          /\ raised' = "" /\ pc' = "cleanup"
          /\ \A u \in DOMAIN units :
                \/ units'[u].current_mana = units[u].current_mana
                \/ \E i \in DOMAIN action_queue' :
                      /\ action_queue'[i].unit = u /\ action_queue'[i].action_type = CAST_SPELL
                      /\ action_queue'[i].planned_frame = frame_number]_vars

(* The units that reach _find_target in the planning phase that starts in  *)
(* this state: alive, on the board, without a pending action, with a       *)
(* living enemy, and not about to cast a spell that needs no target.       *)
FoeSet(u) ==
    {e \in SeqToSet(all_units) : IsAlive(units[e]) /\ units[e].team # units[u].team}

Targeters ==
    {u \in SeqToSet(all_units) :
        /\ IsAlive(units[u]) /\ units[u].position # NoPos
        /\ \A i \in DOMAIN action_queue : action_queue[i].unit # u
        /\ FoeSet(u) # {}
        /\ ~(units[u].current_mana >= MaxMana(units[u]) /\ ~Spell(units[u]).ranged)}

StepsToRange(u, e) ==
    PathfindDistanceToRange(cells, units[u].position, units[e].position, Stats(units[u]).range)

(* The living enemies than which none is nearer: fewest steps to range,    *)
(* and the least straight-line distance among those.                       *)
NearestFoes(u) ==
    LET reachable == {e \in FoeSet(u) : units[e].position # NoPos /\ StepsToRange(u, e) < Infinity}
    IN {e \in reachable :
           \A f \in reachable :
              \/ StepsToRange(u, e) < StepsToRange(u, f)
              \/ /\ StepsToRange(u, e) = StepsToRange(u, f)
                 /\ L2Squared(units[u].position, units[e].position)
                        <= L2Squared(units[u].position, units[f].position)}

KeepsTarget(u) ==
    /\ units[u].current_target \in FoeSet(u)
    /\ StepsToRange(u, units[u].current_target) <= 1

TargetsAllowed(u) ==
    IF KeepsTarget(u) THEN {units[u].current_target}
    ELSE IF NearestFoes(u) = {} THEN {None}
    ELSE NearestFoes(u)

(* C29: in a planning phase every unit that looks for a target keeps its   *)
(* current target when that is a living enemy at most one step from range; *)
(* otherwise it takes a living enemy with the fewest steps to range and,   *)
(* among those, the least Euclidean distance, and has no target only when  *)
(* no living enemy can be brought into range.  The unit's current target   *)
(* is what was found, and an attack planned in the phase aims at it.       *)
C29_TargetingRule ==
    [][(pc = "plan" /\ raised' = "") =>
          \A u \in Targeters :
             /\ units'[u].current_target \in TargetsAllowed(u)
             /\ \A i \in DOMAIN action_queue' :
                   (action_queue'[i].unit = u /\ action_queue'[i].action_type = ATTACK) =>
                       action_queue'[i].target = units'[u].current_target]_vars

(* A unit has just planned an attack on, or a move towards, the target it  *)
(* had, though another living enemy stands within its range and nearer.    *)
C29_Witness ==
    /\ pc = "cleanup"
    /\ \E i \in DOMAIN action_queue : \E e \in DOMAIN units :
          LET u == action_queue[i].unit
              t == units[u].current_target
          IN /\ action_queue[i].action_type \in {ATTACK, MOVE}
             /\ action_queue[i].planned_frame = frame_number
             /\ t # None /\ e # t
             /\ IsAlive(units[e]) /\ units[e].team # units[u].team
             /\ units[e].position # NoPos /\ units[t].position # NoPos
             /\ L2Squared(units[u].position, units[e].position)
                    <= Stats(units[u]).range * Stats(units[u]).range
             /\ L2Squared(units[u].position, units[e].position)
                    < L2Squared(units[u].position, units[t].position)

(* The enemies of u in the order in which _plan_unit_action passes them,   *)
(* and the states in which the generator of an engine can be when the scan *)
(* begins: every sequence of draws is the stream of one of them.           *)
FoeSeq(u) ==
    SelectSeq(all_units, LAMBDA e : IsAlive(units[e]) /\ units[e].team # units[u].team)

RngOutcomes == [seed : Seeds, entropy : {0}, pos : {0}]

FoundWith(r, u) == FindTarget([World EXCEPT !.rng = r], u, FoeSeq(u)).ret

(* C30: when a unit scans for a target and two or more living enemies tie  *)
(* on the steps to range and on the Euclidean distance, each of them is    *)
(* the target found under some outcome of the random draws.                *)
C30_TieBreakFair ==
    pc = "plan" =>
        \A u \in Targeters :
           (~KeepsTarget(u) /\ Cardinality(NearestFoes(u)) >= 2) =>
               \A e \in NearestFoes(u) : \E r \in RngOutcomes : FoundWith(r, u) = e

(* The basic attacks unit u has planned so far, as positions of the log of *)
(* the next state, and whether they follow one another: every one but the  *)
(* first was planned in a frame in which a basic attack of u resolved, and *)
(* u has planned nothing else.                                             *)
TimingFrames == 60

AttackPlans(log, u) ==
    {i \in DOMAIN log : /\ log[i].event_type = "action_planned" /\ log[i].source = u
                        /\ log[i].target # None /\ log[i].spell_name = ""}

BackToBack(log, u) ==
    LET plans == AttackPlans(log, u)
    IN /\ \A i \in DOMAIN log :
             (log[i].event_type = "action_planned" /\ log[i].source = u) => i \in plans
       /\ \A i \in plans :
             \/ \A j \in plans : i <= j
             \/ \E j \in DOMAIN log :
                   /\ log[j].frame_number = log[i].frame_number /\ log[j].source = u
                   /\ log[j].event_type \in {"damage_dealt", "failed_attack"}

FirstPlanned(log, u) ==
    log[CHOOSE i \in AttackPlans(log, u) : \A j \in AttackPlans(log, u) : i <= j].frame_number

(* The ceiling of a / b for b > 0 *)
Ceiling(a, b) == -((-a) \div b)

(* C32: an attack planned by a unit of attack speed s waits                *)
(* ceil((attack_delay - overflow) / s) frames, at least one, and leaves an *)
(* overflow of at least 0 and less than s; the k-th of the attacks a unit  *)
(* plans back to back resolves ceil(k * attack_delay / s) frames after the *)
(* first was planned.                                                      *)
C32_AttackTiming ==
    [][(pc = "plan" /\ raised' = "" /\ frame_number <= TimingFrames) =>
          \A i \in DOMAIN action_queue' :
             LET a == action_queue'[i]
                 u == a.unit
                 s == GetAttackSpeed(units[u])
                 initiative_needed == attack_delay * 10000 - units[u].basic_attack_overflow
             IN (a.action_type = ATTACK /\ a.planned_frame = frame_number) =>
                   /\ a.resolution_frame - frame_number = Ceiling(initiative_needed, s)
                   /\ a.resolution_frame - frame_number >= 1
                   /\ units'[u].basic_attack_overflow >= 0
                   /\ units'[u].basic_attack_overflow < s
                   /\ (units[u].attack_speed_buff = 100 /\ BackToBack(combat_log', u)) =>
                         a.resolution_frame - FirstPlanned(combat_log', u)
                             = Ceiling(Cardinality(AttackPlans(combat_log', u)) * attack_delay * 10000, s)]_vars

(* C34: a Move that is due while its unit is alive finds its destination   *)
(* reserved for the unit and succeeds: the unit stands on the destination, *)
(* the cell it left is empty, its planned_position is cleared and a        *)
(* move_executed event is logged; no move ever fails.                      *)
C34_QueuedMoveSucceeds ==
    [][pc = "resolve" =>
          /\ \A i \in NewIndexes : combat_log'[i].event_type # "failed_move"
          /\ \A m \in DueActions(MOVE) :
                LET u == action_queue[m].unit
                    destination == action_queue[m].target_position
                    origin == units[u].position
                IN units'[u].current_health > 0 =>
                      /\ cells[destination] = [unit |-> u, cell_type |-> PLANNED]
                      /\ units'[u].position = destination
                      /\ cells'[destination] = [unit |-> u, cell_type |-> UNIT]
                      /\ cells'[origin] = EmptyCell
                      /\ units'[u].planned_position = NoPos
                      /\ \E i \in NewIndexes :
                            /\ combat_log'[i].event_type = "move_executed"
                            /\ combat_log'[i].source = u
                            /\ combat_log'[i].position = destination]_vars

(* A unit has just moved in a battle in which an assassin has blinked.     *)
C34_Witness ==
    /\ pc = "plan"
    /\ \E j \in LastEvents :
          /\ combat_log[j].event_type = "move_executed"
          /\ combat_log[j].frame_number = frame_number
          /\ units[combat_log[j].source].position = combat_log[j].position
    /\ \E i \in DOMAIN combat_log :
          /\ combat_log[i].event_type = "damage_dealt"
          /\ combat_log[i].spell_name = "Assassin Blink"

(* The actions the planning phase of this frame has queued with a cell to  *)
(* move to: the moves, and the moves that lost a conflict and were turned  *)
(* into waits.                                                             *)
MovesPlanned(queue, frame) ==
    {i \in DOMAIN queue : queue[i].planned_frame = frame /\ queue[i].target_position # NoPos}

(* C35: every move the planning phase produces leads to a cell next to the *)
(* cell of its unit that was empty, neither occupied nor reserved, when    *)
(* the phase began; the phase never fails on a path of fewer than two      *)
(* cells nor on the reservation of a destination.                          *)
C35_MovePlansNeighbour ==
    [][pc = "plan" =>
          /\ raised' \notin {"list index out of range", "Cell is not empty or already planned",
                           "Position does not exist on the board"}
          /\ \A i \in MovesPlanned(action_queue', frame_number) :
                LET a == action_queue'[i]
                IN /\ a.action_type \in {MOVE, WAIT}
                   /\ L1Distance(units[a.unit].position, a.target_position) = 1
                   /\ cells[a.target_position] = EmptyCell
                   /\ a.action_type = MOVE =>
                         cells'[a.target_position] = [unit |-> a.unit, cell_type |-> PLANNED]]_vars

(* A unit whose target is beyond its reach has just been given a move to a *)
(* neighbouring cell, now reserved for it.                                 *)
C35_Witness ==
    /\ pc = "cleanup"
    /\ \E i \in MovesPlanned(action_queue, frame_number) :
          LET a == action_queue[i]
              unit == units[a.unit]
          IN /\ a.action_type = MOVE
             /\ unit.current_target # None
             /\ units[unit.current_target].position # NoPos
             /\ ~WithinL2(unit.position, units[unit.current_target].position, Stats(unit).range, 66)
             /\ L1Distance(unit.position, a.target_position) = 1
             /\ cells[a.target_position] = [unit |-> a.unit, cell_type |-> PLANNED]

(* C37: when the loop finds no living unit in either team, the last of     *)
(* both having died in the frame before, simulate_combat returns 0.        *)
C37_MutualEliminationDraw ==
    [][(pc = "loop" /\ LivingOf(1) = {} /\ LivingOf(2) = {}) =>
          (pc' = "done" /\ result' = 0)]_vars

(* A battle has ended before the cap with a draw, a unit of each team      *)
(* having died in its last frame.                                          *)
C37_Witness ==
    /\ pc = "done" /\ result = 0 /\ frame_number < max_frames
    /\ LivingOf(1) = {} /\ LivingOf(2) = {}
    /\ \E i \in LastEvents, j \in LastEvents :
          /\ combat_log[i].event_type = "unit_died" /\ combat_log[j].event_type = "unit_died"
          /\ combat_log[i].frame_number = frame_number /\ combat_log[j].frame_number = frame_number
          /\ units[combat_log[i].target].team = 1 /\ units[combat_log[j].target].team = 2

(* The attacks that are due in this frame, as positions of the queue in    *)
(* the order of the queue, and the damage the first k - 1 of them have     *)
(* done to unit t according to the events the resolve step logs for them.  *)
DueAttackSeq ==
    SelectSeq([i \in DOMAIN action_queue |-> i], LAMBDA i : i \in DueActions(ATTACK))

RECURSIVE DamageBefore(_, _, _)
DamageBefore(log, k, t) ==
    IF k <= 1 THEN 0
    ELSE LET e == log[Len(combat_log) + k - 1]
         IN DamageBefore(log, k - 1, t)
              + (IF e.event_type = "damage_dealt" /\ e.target = t THEN e.damage ELSE 0)

(* C38: the k-th attack that is due does damage exactly when its attacker  *)
(* was alive when the resolve step began and its target is alive once the  *)
(* attacks before it are done; otherwise it is dropped with a              *)
(* failed_attack event and no damage.  Where the two units stand plays no  *)
(* part.                                                                   *)
C38_AttackChecksLivenessOnly ==
    [][pc = "resolve" =>
          \A k \in DOMAIN DueAttackSeq :
             LET a == action_queue[DueAttackSeq[k]]
                 e == combat_log'[Len(combat_log) + k]
                 lands == /\ units[a.unit].current_health > 0
                          /\ a.target # None
                          /\ units[a.target].current_health - DamageBefore(combat_log', k, a.target) > 0
             IN /\ Len(combat_log') >= Len(combat_log) + k
                /\ e.source = a.unit /\ e.target = a.target
                /\ lands => (e.event_type = "damage_dealt" /\ e.spell_name = "BasicAttack" /\ e.damage > 0)
                /\ ~lands => (e.event_type = "failed_attack" /\ e.damage = 0)]_vars

(* An attack has just done damage to a target that had left the attacker's *)
(* reach before the frame: neither unit has moved in this frame.           *)
C38_Witness ==
    /\ pc = "plan"
    /\ \E i \in LastEvents :
          LET e == combat_log[i]
          IN /\ e.event_type = "damage_dealt" /\ e.spell_name = "BasicAttack"
             /\ e.frame_number = frame_number
             /\ units[e.source].position # NoPos /\ units[e.target].position # NoPos
             /\ ~WithinL2(units[e.source].position, units[e.target].position, Stats(units[e.source]).range, 66)
             /\ \A j \in LastEvents :
                   (combat_log[j].frame_number = frame_number /\ combat_log[j].event_type = "move_executed")
                       => combat_log[j].source \notin {e.source, e.target}

(* The basic attacks of unit u that do damage in this resolve step *)
LandedAttacks(u) ==
    Cardinality({i \in NewIndexes :
                    /\ combat_log'[i].event_type = "damage_dealt"
                    /\ combat_log'[i].spell_name = "BasicAttack"
                    /\ combat_log'[i].source = u})

(* C39: a unit's mana goes down only in the planning of a frame in which   *)
(* the unit queues a spell cast, and then by exactly its mana pool; the    *)
(* resolution of a frame leaves a unit with no less than its mana plus the *)
(* mana of the basic attacks it landed, so that taking damage has lowered  *)
(* nothing.                                                                *)
C39_ManaOnlySpentByCasting ==
    [][\A u \in DOMAIN units :
          /\ pc = "plan" =>
                \/ units'[u].current_mana = units[u].current_mana
                \/ /\ units'[u].current_mana = units[u].current_mana - MaxMana(units[u])
                   /\ \E i \in DOMAIN action_queue' :
                         /\ action_queue'[i].unit = u
                         /\ action_queue'[i].action_type = CAST_SPELL
                         /\ action_queue'[i].planned_frame = frame_number
          /\ pc = "resolve" =>
                units'[u].current_mana >= units[u].current_mana + LandedAttacks(u) * basic_attack_mana * ManaDen
          /\ pc \notin {"plan", "resolve"} => units'[u].current_mana >= units[u].current_mana]_vars

(* C40: a unit that looks for a target in a planning phase and is left     *)
(* without one has no living enemy within its reach, weapon range + 0.66   *)
(* in Euclidean distance.                                                  *)
C40_NoIdlingInReach ==
    [][(pc = "plan" /\ raised' = "") =>
          \A u \in Targeters :
             units'[u].current_target = None =>
                \A e \in FoeSet(u) :
                   \/ units[e].position = NoPos
                   \/ ~WithinL2(units[u].position, units[e].position, Stats(units[u]).range, 66)]_vars

-----------------------------------------------------------------------------
(* A caller of the board API: Board.place_unit, Board.move_unit and        *)
(* Board.remove_unit called in any order on a board that starts empty,     *)
(* with positions on and off the board.                                    *)

CallUnits == 1 .. 2
CallPositions == {<<0, 0>>, <<1, 0>>, <<0, 1>>, <<0 - 1, 0>>, <<0, BoardH>>}

(* The objects the calls of a caller act on: units, cells, log *)
CallerWorld ==
    [units |-> units, cells |-> cells, log |-> combat_log, spells |-> spells,
     frame_number |-> frame_number, raised |-> ""]

(* The call has led to w: an exception the call raised is kept in raised   *)
CallerBecomes(w) ==
    /\ units' = w.units /\ cells' = w.cells /\ combat_log' = w.log /\ raised' = w.raised
    /\ calls' = calls + 1
    /\ UNCHANGED <<pc, result, frame_number, action_queue, all_units, spells, rng, teams, other>>

InitBoard ==
    /\ units = [u \in CallUnits |-> NewUnit("warrior", 1 + (u % 2), 1, GetMaxHealth([unit_type |-> "warrior", level |-> 1]), 0)]
    /\ spells = NewSpells(units)
    /\ combat_log = <<>>
    /\ EngineIs([NoEngine EXCEPT !.pc = "caller"])
    /\ other = NoEngine
    /\ calls = 0
    /\ last = [op |-> "none"]

PlaceUnit(u, pos) ==
    /\ pc = "caller" /\ calls < MaxCalls
    /\ LET r == BoardPlaceUnit(CallerWorld, u, pos)
       IN /\ CallerBecomes(r.w)
          /\ last' = [op |-> "place_unit", unit |-> u, position |-> pos, ret |-> r.ret]

MoveUnit(from_pos, to_pos) ==
    /\ pc = "caller" /\ calls < MaxCalls
    /\ LET r == BoardMoveUnit(CallerWorld, from_pos, to_pos)
       IN /\ CallerBecomes(r.w)
          /\ last' = [op |-> "move_unit", from_pos |-> from_pos, position |-> to_pos, ret |-> r.ret]

RemoveUnit(pos) ==
    /\ pc = "caller" /\ calls < MaxCalls
    /\ LET w == BoardRemoveUnit(CallerWorld, pos)
       IN /\ CallerBecomes(w)
          /\ last' = [op |-> "remove_unit", position |-> pos, ret |-> w.raised = ""]

NextBoard ==
    \/ \E u \in CallUnits, pos \in CallPositions : PlaceUnit(u, pos)
    \/ \E from_pos \in CallPositions, to_pos \in CallPositions : MoveUnit(from_pos, to_pos)
    \/ \E pos \in CallPositions : RemoveUnit(pos)

SpecBoard == InitBoard /\ [][NextBoard]_vars

(* C5: after any sequence of place_unit, move_unit and remove_unit calls   *)
(* on a board that starts empty, a cell is tagged occupied iff it holds a  *)
(* unit whose position is that cell, no unit is held by two cells and no   *)
(* two units have the same position.                                       *)
C5_OccupancyBijection ==
    /\ \A p \in Pos :
          (cells[p].cell_type = UNIT) <=> (cells[p].unit # None /\ units[cells[p].unit].position = p)
    /\ \A p \in Pos, q \in Pos :
          (cells[p].unit # None /\ cells[p].unit = cells[q].unit) => p = q
    /\ \A u \in DOMAIN units, v \in DOMAIN units :
          (units[u].position # NoPos /\ units[u].position = units[v].position) => u = v

(* C20: a place_unit call on a position that is off the board, outside the *)
(* half of the board of the unit's team, or on a cell that is occupied or  *)
(* reserved returns False and leaves every cell and every unit unchanged.  *)
C20_PlacementValidated ==
    [][(/\ calls' = calls + 1 /\ last'.op = "place_unit"
        /\ IF IsValidInitialPosition(last'.position, units[last'.unit].team)
           THEN ~CellIsEmpty(cells[last'.position])
           ELSE TRUE)
          => (last'.ret = FALSE /\ cells' = cells /\ units' = units)]_vars

-----------------------------------------------------------------------------
(* A caller of the unit API: Unit.take_damage and Unit.heal called in any  *)
(* order on a unit of any type at level 1 or 2 that starts at full health. *)
(* Raw values are given in halves and are the magnitudes the engine and    *)
(* the spells build: none is negative.                                     *)

Levels == 1 .. 2
RawValues == {0, 1, 131, 3800}
(* Damage.dmg_type is Optional: the default tag None is no DamageType *)
NO_TYPE == ""
DamageTypes == {PHYSICAL, MAGICAL, TRUE_DMG, NO_TYPE}

InitUnit ==
    /\ \E t \in UnitTypes, lvl \in Levels :
          units = [u \in {1} |-> NewUnit(t, 1, lvl, GetMaxHealth([unit_type |-> t, level |-> lvl]), 0)]
    /\ spells = NewSpells(units)
    /\ combat_log = <<>>
    /\ EngineIs([NoEngine EXCEPT !.pc = "caller"])
    /\ other = NoEngine
    /\ calls = 0
    /\ last = [op |-> "none"]

TakeDamageCall(value, dmg_type, heal) ==
    /\ pc = "caller" /\ calls < MaxCalls
    /\ LET damage_obj == Damage(value, 0, dmg_type, FALSE, heal)
           r == TakeDamage(CallerWorld, 1, damage_obj, None, "")
       IN /\ CallerBecomes(r.w)
          /\ last' = [op |-> "take_damage", damage |-> damage_obj, before |-> units[1], ret |-> r.ret]

HealCall(value, heal) ==
    /\ pc = "caller" /\ calls < MaxCalls
    /\ LET damage_obj == Damage(value, 0, NO_TYPE, FALSE, heal)
       IN /\ CallerBecomes(Heal(CallerWorld, 1, damage_obj, None, ""))
          /\ last' = [op |-> "heal", damage |-> damage_obj, before |-> units[1], ret |-> 0]

NextUnit ==
    \/ \E value \in RawValues, dmg_type \in DamageTypes, heal \in BOOLEAN : TakeDamageCall(value, dmg_type, heal)
    \/ \E value \in RawValues, heal \in BOOLEAN : HealCall(value, heal)

SpecUnit == InitUnit /\ [][NextUnit]_vars

(* C8: a unit's health lies between 0 and its level-scaled maximum;        *)
(* take_damage subtracts what it returns, which is between 0 and the       *)
(* health the unit had, and heal does not lower the health and does not    *)
(* raise it above the maximum.                                             *)
C8_HealthBounds ==
    /\ \A u \in DOMAIN units :
          0 <= units[u].current_health /\ units[u].current_health <= GetMaxHealth(units[u])
    /\ (last.op = "take_damage" /\ raised = "") =>
          /\ 0 <= last.ret /\ last.ret <= last.before.current_health
          /\ units[1].current_health = last.before.current_health - last.ret
    /\ (last.op = "heal" /\ raised = "") =>
          /\ units[1].current_health >= last.before.current_health
          /\ units[1].current_health <= GetMaxHealth(units[1])

(* A heal of a damaged unit has stopped at the maximum: the unit had lost  *)
(* less than the heal's value.                                             *)
C8_Witness ==
    /\ last.op = "heal" /\ raised = "" /\ last.damage.value > 0
    /\ last.before.current_health < GetMaxHealth(units[1])
    /\ last.before.current_health + last.damage.value * (HealthDen \div 2) > GetMaxHealth(units[1])
    /\ units[1].current_health = GetMaxHealth(units[1])

(* r * 100 / (100 + d) of a raw value in halves, in 1/HealthDen; 100 + d   *)
(* divides 50 * HealthDen for the defenses and resistances of the units.   *)
Reduced(value, d) == value * ((50 * HealthDen) \div (100 + d))

(* C9: for a raw value r > 0, take_damage of Physical damage on a target   *)
(* of defense d, and of Magical damage on a target of resistance d, takes  *)
(* max(1, r * 100 / (100 + d)), and of True damage takes r, each capped by *)
(* the health the target had; it returns that amount and subtracts it.     *)
C9_MitigationFormula ==
    (last.op = "take_damage" /\ raised = "" /\ last.damage.value > 0) =>
        LET stats == DefaultStats(last.before.unit_type)
            mitigated ==
                CASE last.damage.dmg_type = PHYSICAL -> Max(HealthDen, Reduced(last.damage.value, stats.defense))
                  [] last.damage.dmg_type = MAGICAL -> Max(HealthDen, Reduced(last.damage.value, stats.resistance))
                  [] last.damage.dmg_type = TRUE_DMG -> last.damage.value * (HealthDen \div 2)
        IN /\ last.ret = Min(mitigated, last.before.current_health)
           /\ units[1].current_health = last.before.current_health - last.ret

(* Magical damage on an assassin, whose resistance is not its defense, was *)
(* reduced by more than the floor of 1 and less than the health left.      *)
C9_Witness ==
    /\ last.op = "take_damage" /\ raised = "" /\ last.damage.dmg_type = MAGICAL
    /\ last.before.unit_type = "assassin"
    /\ last.ret > HealthDen /\ last.ret < last.before.current_health
    /\ last.ret = Reduced(last.damage.value, 30)

(* The call just made was take_damage with a heal-tagged Damage, or heal   *)
(* with a Damage that is not heal-tagged.                                  *)
WrongTagCall ==
    /\ calls' = calls + 1
    /\ \/ last'.op = "take_damage" /\ last'.damage.heal
       \/ last'.op = "heal" /\ ~last'.damage.heal

(* C11: take_damage of a heal-tagged Damage and heal of a Damage that is   *)
(* not heal-tagged raise an error, leave the unit's health and mana as     *)
(* they were and append no event to the log.                               *)
C11_TagContract ==
    [][WrongTagCall => (raised' # "" /\ units' = units /\ combat_log' = combat_log)]_vars

(* heal was called with a damage-tagged Damage of positive value on a unit *)
(* that had lost health and has events in the log: it raised.              *)
C11_Witness ==
    /\ last.op = "heal" /\ ~last.damage.heal /\ last.damage.value > 0
    /\ last.before.current_health < GetMaxHealth(last.before)
    /\ combat_log # <<>>
    /\ raised # ""

(* The call just made was take_damage with a Damage that is not            *)
(* heal-tagged and whose type tag is no DamageType.                        *)
UnknownTypeCall ==
    /\ calls' = calls + 1
    /\ last'.op = "take_damage" /\ ~last'.damage.heal
    /\ last'.damage.dmg_type \notin {PHYSICAL, MAGICAL, TRUE_DMG}

(* C12: take_damage of a Damage whose type tag is none of Physical,        *)
(* Magical, True raises an error before it modifies the unit: health and   *)
(* mana are as they were and no event is logged.                           *)
C12_UnknownTypeFailsFast ==
    [][UnknownTypeCall => (raised' # "" /\ units' = units /\ combat_log' = combat_log)]_vars

-----------------------------------------------------------------------------
(* A caller of the path queries of the board: Board.find_path,             *)
(* Board.find_path_guided and Board.find_path_to_range_guided called on a  *)
(* board that holds up to MaxBlockers units, placed with Board.place_unit, *)
(* and at most one cell reserved with Board.set_planned for the first of   *)
(* them.  The queries leave the board as it is, so a behaviour asks one.   *)

MaxBlockers == 3
OffBoard == {<<0 - 1, 0>>, <<0, BoardH>>}
QueryRanges == 1 .. 2

(* The guard of find_path and find_path_guided: lines 260-261 and 301-302  *)
FindPathChecked(w, start, target, guided) ==
    IF ~IsValidPosition(start) \/ ~IsValidPosition(target)
    THEN Ret(Raise(w, "Start or target position is out of bounds"), <<>>)
    ELSE Ret(w, IF guided THEN FindPathGuided(w.cells, start, target)
                ELSE FindPath(w.cells, start, target))

(* The board with the units at the positions of S and the cell reserved    *)
BlockedBoard(S, reserved) ==
    LET order == SelectSeq(BoardOrder, LAMBDA p : p \in S)
        fighters == [i \in 1 .. Len(order) |-> Fighter("warrior", 1, order[i], DuelHealth, 0)]
        w == [units |-> UnitsOf(fighters, 0), cells |-> CellsOf(fighters, 0), raised |-> ""]
    IN IF reserved = NoPos THEN w
       ELSE [BoardSetPlanned(w, reserved, 1) EXCEPT !.units[1].planned_position = reserved]

InitPath ==
    /\ \E S \in SUBSET Pos, reserved \in Pos \cup {NoPos} :
          /\ Cardinality(S) <= MaxBlockers
          /\ reserved # NoPos => (reserved \notin S /\ Cardinality(S) = 1)
          /\ units = BlockedBoard(S, reserved).units
          /\ cells = BlockedBoard(S, reserved).cells
    /\ spells = NewSpells(units)
    /\ combat_log = <<>>
    /\ pc = "caller" /\ result = 0 - 1 /\ frame_number = 0 /\ action_queue = <<>>
    /\ all_units = <<>> /\ rng = NoEngine.rng /\ teams = NoEngine.teams /\ raised = ""
    /\ other = NoEngine
    /\ calls = 0
    /\ last = [op |-> "none"]

(* The query has returned path, or raised *)
Answered(op, start, target, attack_range, r) ==
    /\ last' = [op |-> op, start |-> start, target |-> target, attack_range |-> attack_range, path |-> r.ret]
    /\ raised' = r.w.raised
    /\ calls' = calls + 1
    /\ UNCHANGED <<units, cells, combat_log, pc, result, frame_number, action_queue,
                   all_units, spells, rng, teams, other>>

FindPathCall(start, target) ==
    /\ pc = "caller" /\ calls = 0
    /\ Answered("find_path", start, target, 0, FindPathChecked(CallerWorld, start, target, FALSE))

FindPathGuidedCall(start, target) ==
    /\ pc = "caller" /\ calls = 0
    /\ Answered("find_path_guided", start, target, 0, FindPathChecked(CallerWorld, start, target, TRUE))

FindPathToRangeGuidedCall(start, target, attack_range) ==
    /\ pc = "caller" /\ calls = 0
    /\ Answered("find_path_to_range_guided", start, target, attack_range,
                Ret(CallerWorld, FindPathToRangeGuided(cells, start, target, attack_range)))

NextPath ==
    \/ \E start \in Pos \cup OffBoard, target \in Pos \cup OffBoard : FindPathCall(start, target)
    \/ \E start \in Pos, target \in Pos : FindPathGuidedCall(start, target)
    \/ \E start \in Pos, target \in Pos, attack_range \in QueryRanges :
          FindPathToRangeGuidedCall(start, target, attack_range)

SpecPath == InitPath /\ [][NextPath]_vars

(* The least number of steps from a cell of the frontier to target over    *)
(* orthogonal neighbours that are empty cells or the target; Infinity when *)
(* there is no way.                                                        *)
RECURSIVE Hops(_, _, _, _, _)
Hops(cl, seen, frontier, target, d) ==
    IF target \in frontier THEN d
    ELSE LET next == {n \in Pos \ seen :
                        /\ CellIsEmpty(cl[n]) \/ n = target
                        /\ \E c \in frontier : L1Distance(c, n) = 1}
         IN IF next = {} THEN Infinity
            ELSE Hops(cl, seen \cup next, next, target, d + 1)

ShortestSteps(cl, start, target) == Hops(cl, {start}, {start}, target, 0)

NoReservedCell == \A p \in Pos : ~CellIsPlanned(cells[p])

(* The path goes from start to target by steps between orthogonal          *)
(* neighbours and enters no occupied cell before the target.               *)
IsWalk(path, start, target) ==
    /\ path[1] = start /\ path[Len(path)] = target
    /\ \A i \in 1 .. Len(path) : IsValidPosition(path[i])
    /\ \A i \in 1 .. Len(path) - 1 : L1Distance(path[i], path[i + 1]) = 1
    /\ \A i \in 2 .. Len(path) - 1 : ~CellIsOccupied(cells[path[i]])

(* C13: on a board without reserved cells find_path raises when start or   *)
(* target is off the board and only then; for start and target on the      *)
(* board it returns the empty path exactly when no walk from start to      *)
(* target avoids the occupied cells, and otherwise such a walk with the    *)
(* least number of steps, which on the empty board is the Manhattan        *)
(* distance.                                                               *)
C13_ShortestPath ==
    (last.op = "find_path" /\ NoReservedCell) =>
        IF ~IsValidPosition(last.start) \/ ~IsValidPosition(last.target)
        THEN raised # ""
        ELSE /\ raised = ""
             /\ (last.path = <<>>) <=> (ShortestSteps(cells, last.start, last.target) = Infinity)
             /\ last.path # <<>> =>
                   /\ IsWalk(last.path, last.start, last.target)
                   /\ Len(last.path) - 1 = ShortestSteps(cells, last.start, last.target)
                   /\ (\A p \in Pos : CellIsEmpty(cells[p])) =>
                         Len(last.path) - 1 = L1Distance(last.start, last.target)

(* find_path has returned a path that goes round occupied cells: it is     *)
(* longer than the Manhattan distance.                                     *)
C13_Witness ==
    /\ last.op = "find_path" /\ NoReservedCell /\ raised = ""
    /\ last.path # <<>>
    /\ Len(last.path) - 1 > L1Distance(last.start, last.target)

(* C15: on every board, for start and target on the board,                 *)
(* find_path_guided returns without an error a path of as many cells as    *)
(* the path find_path returns: it is empty exactly when that one is, and   *)
(* has the same number of steps.                                           *)
C15_GuidedSameLength ==
    (last.op = "find_path_guided") =>
        /\ raised = ""
        /\ Len(last.path) = Len(FindPath(cells, last.start, last.target))
        /\ last.path # <<>> => IsWalk(last.path, last.start, last.target)

(* find_path_guided has returned another path than find_path on a board    *)
(* with occupied cells, of the same length.                                *)
C15_Witness ==
    /\ last.op = "find_path_guided" /\ raised = ""
    /\ \E p \in Pos : CellIsOccupied(cells[p])
    /\ last.path # <<>>
    /\ last.path # FindPath(cells, last.start, last.target)
    /\ Len(last.path) = Len(FindPath(cells, last.start, last.target))

(* The cells within Euclidean distance attack_range of target that are     *)
(* empty or are start                                                      *)
CellsInReach(start, target, attack_range) ==
    {q \in Pos : /\ L2Squared(q, target) <= attack_range * attack_range
                 /\ CellIsEmpty(cells[q]) \/ q = start}

(* The least number of steps from start to one of the cells of S           *)
NearestSteps(start, S) ==
    IF S = {} THEN Infinity
    ELSE LET steps == {ShortestSteps(cells, start, q) : q \in S}
         IN CHOOSE d \in steps : \A e \in steps : d <= e

(* C16: find_path_to_range_guided returns a path from start whose last     *)
(* cell is within Euclidean distance attack_range of target and is empty   *)
(* or is start, with the least number of steps among the paths to such     *)
(* cells; it returns the empty path exactly when none of them can be       *)
(* reached.                                                                *)
C16_PathToRange ==
    (last.op = "find_path_to_range_guided") =>
        LET reach == CellsInReach(last.start, last.target, last.attack_range)
        IN /\ raised = ""
           /\ (last.path = <<>>) <=> (NearestSteps(last.start, reach) = Infinity)
           /\ last.path # <<>> =>
                 /\ last.path[Len(last.path)] \in reach
                 /\ IsWalk(last.path, last.start, last.path[Len(last.path)])
                 /\ Len(last.path) - 1 = NearestSteps(last.start, reach)

(* find_path_to_range_guided has returned a path of two steps or more that *)
(* stops short of an occupied target, on a board where a nearer cell within*)
(* the range is occupied or reserved.                                      *)
C16_Witness ==
    /\ last.op = "find_path_to_range_guided" /\ raised = ""
    /\ Len(last.path) >= 3
    /\ last.path[Len(last.path)] # last.target
    /\ CellIsOccupied(cells[last.target])
    /\ \E q \in Pos : /\ L2Squared(q, last.target) <= last.attack_range * last.attack_range
                       /\ ~CellIsEmpty(cells[q]) /\ q # last.target
                       /\ L1Distance(last.start, q) < Len(last.path) - 1

(* The least number of steps from a cell of the frontier to target over    *)
(* orthogonal neighbours that are not occupied or are the target: reserved *)
(* cells count as free.                                                    *)
RECURSIVE HopsOverReserved(_, _, _, _, _)
HopsOverReserved(cl, seen, frontier, target, d) ==
    IF target \in frontier THEN d
    ELSE LET next == {n \in Pos \ seen :
                        /\ ~CellIsOccupied(cl[n]) \/ n = target
                        /\ \E c \in frontier : L1Distance(c, n) = 1}
         IN IF next = {} THEN Infinity
            ELSE HopsOverReserved(cl, seen \cup next, next, target, d + 1)

(* C31: find_path and find_path_guided treat a cell that is only reserved  *)
(* as free: the path they return is a shortest one among the walks that    *)
(* avoid the occupied cells other than the target, and is empty only when  *)
(* there is no such walk.                                                  *)
C31_ReservedCellsTraversable ==
    (last.op \in {"find_path", "find_path_guided"} /\ raised = "") =>
        LET steps == HopsOverReserved(cells, {last.start}, {last.start}, last.target, 0)
        IN /\ (last.path = <<>>) <=> (steps = Infinity)
           /\ last.path # <<>> => Len(last.path) - 1 = steps

-----------------------------------------------------------------------------
(* A caller of the area spells: FireballSpell.execute and                  *)
(* SpinSlashSpell.execute called once on a board with a mage and two       *)
(* warriors at full health, one of the warriors possibly in transit: a     *)
(* cell next to it is reserved for it with Board.set_planned.              *)

CasterCells == {<<0, 0>>, <<1, 1>>}
SpellUnits == 1 .. 3

SpellBoard(p1, p2, p3, team3, holder, reserved) ==
    LET fighters == <<Fighter("mage", 1, p1, 600, 0), Fighter("warrior", 2, p2, 1200, 0),
                      Fighter("warrior", team3, p3, 1200, 0)>>
        w == [units |-> UnitsOf(fighters, 0), cells |-> CellsOf(fighters, 0), raised |-> ""]
    IN IF reserved = NoPos THEN w
       ELSE [BoardSetPlanned(w, reserved, holder) EXCEPT !.units[holder].planned_position = reserved]

InitSpell ==
    /\ \E p1 \in CasterCells, p2 \in Pos, p3 \in Pos, team3 \in 1 .. 2, holder \in 2 .. 3, reserved \in Pos \cup {NoPos} :
          /\ p1 # p2 /\ p1 # p3 /\ p2 # p3
          /\ reserved # NoPos =>
                /\ reserved \notin {p1, p2, p3}
                /\ L1Distance(reserved, IF holder = 2 THEN p2 ELSE p3) = 1
          /\ reserved = NoPos => holder = 2
          /\ units = SpellBoard(p1, p2, p3, team3, holder, reserved).units
          /\ cells = SpellBoard(p1, p2, p3, team3, holder, reserved).cells
    /\ spells = NewSpells(units)
    /\ combat_log = <<>>
    /\ pc = "caller" /\ result = 0 - 1 /\ frame_number = 0 /\ action_queue = <<>>
    /\ all_units = <<>> /\ rng = NoEngine.rng /\ teams = NoEngine.teams /\ raised = ""
    /\ other = NoEngine
    /\ calls = 0
    /\ last = [op |-> "none"]

(* FireballSpell.execute(source, board, frame_number) with the spell's     *)
(* target set to target                                                    *)
FireballCall(source, target) ==
    /\ pc = "caller" /\ calls = 0
    /\ Spell(units[source]).name = "Fireball"
    /\ CallerBecomes(FireballExecute([CallerWorld EXCEPT !.spells[Inst(CallerWorld, source)].target = target], source))
    /\ last' = [op |-> "fireball", source |-> source, target |-> target]

(* SpinSlashSpell.execute(source, board, frame_number) *)
SpinSlashCall(source) ==
    /\ pc = "caller" /\ calls = 0
    /\ CallerBecomes(SpinSlashExecute(CallerWorld, source))
    /\ last' = [op |-> "spin_slash", source |-> source, target |-> source]

NextSpell ==
    \/ \E source \in SpellUnits, target \in SpellUnits : FireballCall(source, target)
    \/ \E source \in SpellUnits : SpinSlashCall(source)

SpecSpell == InitSpell /\ [][NextSpell]_vars

(* The events of the log that record damage taken by u *)
Hits(u) ==
    {i \in DOMAIN combat_log : combat_log[i].event_type = "damage_dealt" /\ combat_log[i].target = u}

(* C33: one execution of Fireball or of Spin Slash damages a unit at most  *)
(* once; a unit other than the Fireball's target is damaged only if the    *)
(* cell it stands on is next to the centre of the spell (the target's cell *)
(* for Fireball, the caster's for Spin Slash), whatever cell is reserved   *)
(* for it; the Fireball's target is damaged once.                          *)
C33_AreaHitsOnce ==
    (last.op \in {"fireball", "spin_slash"}) =>
        LET centre == units[last.target].position
        IN \A u \in DOMAIN units :
              /\ Cardinality(Hits(u)) <= 1
              /\ Hits(u) # {} =>
                    \/ last.op = "fireball" /\ u = last.target
                    \/ /\ L1Distance(units[u].position, centre) = 1
                       /\ cells[units[u].position] = [unit |-> u, cell_type |-> UNIT]

(* A Fireball has hit its target and spared a living unit of the target's  *)
(* team whose reserved cell is next to the target.                         *)
C33_Witness ==
    /\ last.op = "fireball" /\ raised = ""
    /\ Cardinality(Hits(last.target)) = 1
    /\ \E u \in DOMAIN units :
          /\ u # last.target /\ units[u].team = units[last.target].team
          /\ units[u].planned_position # NoPos
          /\ L1Distance(units[u].planned_position, units[last.target].position) = 1
          /\ cells[units[u].planned_position] = [unit |-> u, cell_type |-> PLANNED]
          /\ Hits(u) = {}

-----------------------------------------------------------------------------
(* A caller of Board.move_unit on a board with a unit in transit: the      *)
(* boards of the caller of the area spells, and one call of move_unit.     *)

MoveUnitOnce(from_pos, to_pos) ==
    /\ pc = "caller" /\ calls = 0
    /\ LET r == BoardMoveUnit(CallerWorld, from_pos, to_pos)
       IN /\ CallerBecomes(r.w)
          /\ last' = [op |-> "move_unit", from_pos |-> from_pos, position |-> to_pos, ret |-> r.ret,
                      units |-> units, cells |-> cells]

NextTransit ==
    \E from_pos \in Pos \cup OffBoard, to_pos \in Pos \cup OffBoard : MoveUnitOnce(from_pos, to_pos)

SpecTransit == InitSpell /\ [][NextTransit]_vars

(* C36: a call of move_unit that returns False leaves the unit and the tag *)
(* of every cell, and the position and the planned_position of every unit, *)
(* as they were.                                                           *)
C36_RejectedMoveChangesNothing ==
    (last.op = "move_unit" /\ ~last.ret) =>
        /\ cells = last.cells
        /\ \A u \in DOMAIN units :
              /\ units[u].position = last.units[u].position
              /\ units[u].planned_position = last.units[u].planned_position

-----------------------------------------------------------------------------
(* board.py: HexBoard, odd-r offset coordinates (odd rows shifted right).  *)
(* A position is (x, y) with y the row.                                    *)

(* oddr_to_axial *)
OddrToAxial(p) == <<p[1] - ((p[2] - (p[2] % 2)) \div 2), p[2]>>

(* axial_to_oddr *)
AxialToOddr(a) == <<a[1] + ((a[2] - (a[2] % 2)) \div 2), a[2]>>

(* Neighbours computed with the offsets of the even rows for every row:    *)
(* C14 tells it from HexBoard.get_adjacent_positions.                      *)
HexAdjacentAsEvenRow(p) ==
    SelectSeq(<< <<p[1] - 1, p[2] - 1>>, <<p[1], p[2] - 1>>, <<p[1] + 1, p[2]>>,
                 <<p[1], p[2] + 1>>, <<p[1] - 1, p[2] + 1>>, <<p[1] - 1, p[2]>> >>,
              IsValidPosition)

(* HexBoard.get_adjacent_positions, in the order of the list *)
HexGetAdjacentPositions(p) ==
    SelectSeq(IF p[2] % 2 = 1
              THEN << <<p[1], p[2] - 1>>, <<p[1] + 1, p[2] - 1>>, <<p[1] + 1, p[2]>>,
                      <<p[1] + 1, p[2] + 1>>, <<p[1], p[2] + 1>>, <<p[1] - 1, p[2]>> >>
              ELSE << <<p[1] - 1, p[2] - 1>>, <<p[1], p[2] - 1>>, <<p[1] + 1, p[2]>>,
                      <<p[1], p[2] + 1>>, <<p[1] - 1, p[2] + 1>>, <<p[1] - 1, p[2]>> >>,
              IsValidPosition)

(* HexBoard.l1_distance *)
HexL1Distance(p, q) ==
    LET Axial(a, b) == (Abs(a[1] - b[1]) + Abs(a[1] + a[2] - b[1] - b[2]) + Abs(a[2] - b[2])) \div 2
    IN Axial(OddrToAxial(p), OddrToAxial(q))

(* HexBoard.get_positions_in_l1_range: q outside, r inside *)
HexGetPositionsInL1Range(p, l1_range) ==
    LET side == 2 * l1_range + 1
        rhombus == [i \in 1 .. side * side |-> <<((i - 1) \div side) - l1_range, ((i - 1) % side) - l1_range>>]
        Shifted(a, d) == AxialToOddr(<<a[1] + d[1], a[2] + d[2]>>)
        around == [i \in 1 .. side * side |-> Shifted(OddrToAxial(p), rhombus[i])]
        kept == SelectSeq([i \in 1 .. side * side |-> i],
                          LAMBDA i : /\ Max(0 - l1_range, 0 - rhombus[i][1] - l1_range) <= rhombus[i][2]
                                     /\ rhombus[i][2] <= Min(l1_range, l1_range - rhombus[i][1])
                                     /\ IsValidPosition(around[i]))
    IN [i \in 1 .. Len(kept) |-> around[kept[i]]]

(* A caller of the empty hex board: one query of HexBoard.l1_distance,     *)
(* HexBoard.get_adjacent_positions or HexBoard.get_positions_in_l1_range.  *)
HexRanges == 0 .. 2

InitHex ==
    /\ units = <<>>
    /\ spells = NewSpells(units)
    /\ combat_log = <<>>
    /\ EngineIs([NoEngine EXCEPT !.pc = "caller"])
    /\ other = NoEngine
    /\ calls = 0
    /\ last = [op |-> "none"]

HexAnswered(call) ==
    /\ pc = "caller" /\ calls = 0
    /\ last' = call
    /\ calls' = calls + 1
    /\ UNCHANGED <<units, cells, combat_log, raised, pc, result, frame_number, action_queue,
                   all_units, spells, rng, teams, other>>

HexL1DistanceCall(pos1, pos2) ==
    HexAnswered([op |-> "hex_l1_distance", pos1 |-> pos1, pos2 |-> pos2, ret |-> HexL1Distance(pos1, pos2)])

HexGetAdjacentPositionsCall(position) ==
    HexAnswered([op |-> "hex_get_adjacent_positions", position |-> position,
                 ret |-> HexGetAdjacentPositions(position)])

HexGetPositionsInL1RangeCall(position, l1_range) ==
    HexAnswered([op |-> "hex_get_positions_in_l1_range", position |-> position, l1_range |-> l1_range,
                 ret |-> HexGetPositionsInL1Range(position, l1_range)])

NextHex ==
    \/ \E pos1 \in Pos, pos2 \in Pos : HexL1DistanceCall(pos1, pos2)
    \/ \E position \in Pos : HexGetAdjacentPositionsCall(position)
    \/ \E position \in Pos, l1_range \in HexRanges : HexGetPositionsInL1RangeCall(position, l1_range)

SpecHex == InitHex /\ [][NextHex]_vars

(* The least number of steps from a cell of the frontier to target over    *)
(* the neighbours HexBoard.get_adjacent_positions gives                    *)
RECURSIVE HexHops(_, _, _, _)
HexHops(seen, frontier, target, d) ==
    IF target \in frontier THEN d
    ELSE LET next == UNION {SeqToSet(HexGetAdjacentPositions(c)) : c \in frontier} \ seen
         IN IF next = {} THEN Infinity
            ELSE HexHops(seen \cup next, next, target, d + 1)

(* C14: on the empty hex board HexBoard.l1_distance of two cells is the    *)
(* number of steps of a shortest path between them over                    *)
(* HexBoard.get_adjacent_positions, and get_adjacent_positions gives       *)
(* exactly the cells of the board at l1 distance 1, in even and in odd     *)
(* rows.                                                                   *)
C14_HexDistance ==
    /\ last.op = "hex_l1_distance" =>
          last.ret = HexHops({last.pos1}, {last.pos1}, last.pos2, 0)
    /\ last.op = "hex_get_adjacent_positions" =>
          /\ \A i \in DOMAIN last.ret : IsValidPosition(last.ret[i])
          /\ SeqToSet(last.ret) = {q \in Pos : HexL1Distance(last.position, q) = 1}

(* l1_distance was asked for a cell of an odd row and a cell of an even    *)
(* row that are three steps or more apart.                                 *)
C14_Witness ==
    /\ last.op = "hex_l1_distance"
    /\ last.pos1[2] % 2 = 1 /\ last.pos2[2] % 2 = 0
    /\ last.ret >= 3

-----------------------------------------------------------------------------
(* Two battles in one process.  Each has its own CombatEngine, Board and   *)
(* units; the units of the second battle are numbered from NumUnits + 1.   *)
(* Both engines hold the list global_log.combat_log (combat.py line 67).   *)

(* The second engine takes its next step *)
OtherStep ==
    /\ other.pc \in {"new", "loop", "resolve", "plan", "cleanup"}
    /\ OtherBecomes(EngineStep(OtherWorld))
    /\ UNCHANGED <<calls, last>>

(* Battles that end within a few frames, or before the first: a unit dies  *)
(* of the first hit it takes.                                              *)
IsoHealth == 40
IsoBattles ==
    { <<>>,
      <<Fighter("warrior", 1, <<0, 0>>, IsoHealth, 0)>>,
      <<Fighter("warrior", 1, <<0, 0>>, DuelHealth, 0), Fighter("archer", 2, <<1, 0>>, IsoHealth, 0)>> }

(* Both battles are set up before either is simulated *)
TwoBattles(a, b, seed_a, seed_b, entropy_a, entropy_b, other_pc) ==
    /\ units = UnitsOf(a, 0) @@ UnitsOf(b, NumUnits)
    /\ spells = NewSpells(units)
    /\ combat_log = <<>>
    /\ EngineIs(NewEngine(a, 0, seed_a, entropy_a))
    /\ other = [NewEngine(b, NumUnits, seed_b, entropy_b) EXCEPT !.pc = other_pc]
    /\ calls = 0
    /\ last = [op |-> "none"]

InitIso ==
    \E a \in IsoBattles, b \in IsoBattles, seed_b \in {0, NoSeed} :
        TwoBattles(a, b, 0, seed_b, 0, 0, "new")

NextIso ==
    \/ SimulateCombat
    \/ BeginFrame
    \/ ReturnWinner
    \/ ReturnTimeout
    \/ QueuedActionsPhase
    \/ PlanPhase
    \/ CleanupPhase
    \/ OtherStep

SpecIso == InitIso /\ [][NextIso]_vars

(* C4: a step of one battle, be it the start, a frame or the end, leaves   *)
(* the other battle's event log, pending-action queue and RNG stream as    *)
(* they were.                                                              *)
C4_BattleIsolation ==
    [][(other' # other) => (combat_log' = combat_log /\ action_queue' = action_queue /\ rng' = rng)]_vars

-----------------------------------------------------------------------------
(* The same battle simulated twice: the second run is set up like the      *)
(* first, with units of its own, and is simulated after the first has      *)
(* ended.  What the first run returned and logged is kept in last.         *)

TwinBattles ==
    {d \in Duels : d[1].unit_type \in {"assassin", "archer"} /\ d[1].mana = 0} \cup Skirmishes

TwinSeeds == {1, 5, NoSeed}

InitTwin ==
    \E b \in TwinBattles, seed_a \in TwinSeeds, seed_b \in TwinSeeds :
        TwoBattles(b, b, seed_a, seed_b, 3, 7, "idle")

(* simulate_combat of the second run is called *)
SecondRun ==
    /\ Terminal /\ other.pc = "idle"
    /\ last' = [op |-> "first_run", result |-> result, raised |-> raised, log |-> combat_log]
    /\ OtherBecomes(StartCombat(OtherWorld))
    /\ UNCHANGED calls

NextTwin ==
    \/ SimulateCombat
    \/ BeginFrame
    \/ ReturnWinner
    \/ ReturnTimeout
    \/ QueuedActionsPhase
    \/ PlanPhase
    \/ CleanupPhase
    \/ SecondRun
    \/ OtherStep

SpecTwin == InitTwin /\ [][NextTwin]_vars

(* The events of the second run with its units numbered like the first's *)
FirstRunUnit(u) == IF u = None THEN None ELSE u - NumUnits
AsFirstRun(log) ==
    [i \in DOMAIN log |-> [log[i] EXCEPT !.source = FirstRunUnit(@), !.target = FirstRunUnit(@)]]

SecondRunEnded == other.pc \in {"done", "raised"} /\ last.op = "first_run"

====
